---- MODULE Spec2Model ----
(***************************************************************************)
(* A model of the agent-infrastructure-stack gateway.                      *)
(*                                                                         *)
(* Part I  : SandboxRuntime (sandbox pool, execute, maintenance loop).     *)
(* Part II : AuditStream (buffered append / flush / fan-out).              *)
(*                                                                         *)
(* The runtime is JavaScript: one thread, handlers run to their next       *)
(* `await` of a timer.  Each action below is one such run-to-suspension    *)
(* step.  Time is the value of Date.now() in milliseconds; it advances in  *)
(* steps of TickMs.  A timer fires at its due time, before the clock moves *)
(* on (no handler blocks the event loop), and timers that are due at the   *)
(* same time fire in either order.  Calls of execute() and runs of the     *)
(* maintenance interval may come at any time.                              *)
(***************************************************************************)
EXTENDS Integers, Sequences, FiniteSets, TLC

\* ------------------------------------------------------------------ bounds
MaxExecs == 2          \* concurrent callers of execute()
MaxSandboxes == 3      \* ids generateId() hands out before creation stops
MaxTicks == 4          \* clock ticks before time stops
MaxMinInstances == 1   \* largest configured minInstances
MaxMaxInstances == 2   \* largest configured maxInstances
MaxTools == 1          \* tool definitions the callers pass
MaxPoolHits == 6       \* pool hits after which execute() is no longer called
MaxEntries == 3        \* audit entries written before writing stops
MaxBufferSize == 2     \* largest configured bufferSize
MaxHandlers == 3       \* subscriber handlers
MaxTraces == 2         \* trace ids
MaxKeys == 2           \* cache keys
MaxVectors == 2        \* embeddings the callers store
MaxTtl == 2            \* largest configured ttlMs
MaxCacheClock == 5     \* Date.now() at which the cache's callers stop
MaxCatalog == 3        \* tool definitions in a catalog
MaxPayloadSizeSmall == 40  \* the smaller configured maxPayloadSize, in bytes
MaxViewEntries == 2    \* audit entries a view can be generated for

\* --------------------------------------------------------- program values
SleepCreateMs == 100   \* createSandbox: await sleep(100)
SleepRunMs == 50       \* runInSandbox: await sleep(50)
DefaultTimeoutMs == 30000
TickMs == SleepRunMs   \* the clock's granularity: the shortest sleep

Procs == 1..MaxExecs
Ids == 1..MaxSandboxes
NoSandbox == 0
Tools == 1..MaxTools               \* tool.id
NoTool == 0                        \* a caller passing undefined for the tool
ToolArgs == Tools \cup {NoTool}
\* timeoutMs of a call: shorter than the run in the sandbox, or the default
TimeoutChoices == {TickMs \div 5, DefaultTimeoutMs}
\* idleTimeoutMs: one tick, so that a pooled sandbox can be idle for exactly
\* the timeout and for more than it
IdleTimeoutChoices == {TickMs}

VARIABLES
    clock,        \* Date.now()
    config,       \* this.config
    sandboxObj,   \* the Sandbox objects, by id (status "absent": not constructed)
    sandboxes,    \* keys of this.sandboxes
    pool,         \* this.pool
    metrics,      \* this.metrics
    nextId,       \* ids handed out by generateId()
    exec,         \* one record per caller of execute(): its position and locals
    warm,         \* createSandbox() calls of maintainPool awaiting their sleep
    destroyed,    \* history: number of destroySandbox() calls
    cause,        \* history: why each destroyed sandbox was destroyed
    ev,           \* history: the last step taken and what it did
    \* ---- AuditStream
    buffer,       \* this.buffer
    streamConfig, \* this.config
    handlers,     \* this.handlers, a Set: its elements in insertion order
    flushTimer,   \* TRUE while the interval timer of startFlushTimer runs
    nextEntry,    \* ids of the entries the callers construct
    received,     \* what each handler was called with, in call order
    persisted,    \* what persist() was called with, in call order
    written,      \* history: the entries written, in write order
    audience,     \* history: per entry, the handlers subscribed at its flush
    handlerErrors,\* history: number of 'Audit handler error' lines logged
    uncaught,     \* history: TRUE iff the last call ended by throwing to its caller
    queried,      \* history: the filter and the result of query(), if the
                  \* last call was one
    \* ---- InMemoryEmbeddingCache
    cache,        \* this.cache
    timestamps,   \* this.timestamps
    ttlMs,        \* this.ttlMs
    now,          \* Date.now()
    lastSet,      \* history: per key, the last set() since the last clear()
    cacheEv,      \* history: the last call of the cache and what it returned
    \* ---- IntentRouter
    routerConfig, \* this.config
    routeRequest, \* the argument of route(): availableTools and options
    routeResult,  \* what route() resolved to, once it has
    \* ---- ProtocolAdapter and the six adapters
    adapterConfig,   \* this.config
    rawPayload,      \* the payload a caller holds
    sourceProtocol,  \* the protocol tag the caller passes
    traceId,         \* the traceId the caller passes
    parseResult,     \* adapter.parse(rawPayload), once called
    normalizeResult, \* adapter.normalize(parseResult), once called
    convertResult,   \* convert(rawPayload, sourceProtocol, traceId), once settled
    detectResult,    \* detectProtocol(rawPayload), once called
    \* ---- AuditInterface
    auditEntry,            \* the AuditEntry a caller holds
    comprehensionMetrics,  \* keys of this.comprehensionMetrics
    view                   \* what generateView(auditEntry) returned, once called

sandboxVars == <<clock, config, sandboxObj, sandboxes, pool, metrics, nextId,
                 exec, warm, destroyed, cause, ev>>

streamVars == <<buffer, streamConfig, handlers, flushTimer, nextEntry, received,
                persisted, written, audience, handlerErrors, uncaught, queried>>

cacheVars == <<cache, timestamps, ttlMs, now, lastSet, cacheEv>>

\* the components other than the sandbox runtime and the audit stream
routerVars == <<routerConfig, routeRequest, routeResult>>

adapterVars == <<adapterConfig, rawPayload, sourceProtocol, traceId,
                 parseResult, normalizeResult, convertResult, detectResult>>

viewVars == <<auditEntry, comprehensionMetrics, view>>

libVars == <<cacheVars, routerVars, adapterVars, viewVars>>

vars == <<clock, config, sandboxObj, sandboxes, pool, metrics, nextId,
          exec, warm, destroyed, cause, ev,
          buffer, streamConfig, handlers, flushTimer, nextEntry, received,
          persisted, written, audience, handlerErrors, uncaught, queried,
          cache, timestamps, ttlMs, now, lastSet, cacheEv,
          routerConfig, routeRequest, routeResult,
          adapterConfig, rawPayload, sourceProtocol, traceId,
          parseResult, normalizeResult, convertResult, detectResult,
          auditEntry, comprehensionMetrics, view>>

\* ------------------------------------------------------------ sequences
RECURSIVE SelectIds(_, _)
SelectIds(s, keep) ==
    IF s = <<>> THEN <<>>
    ELSE IF Head(s) \in keep THEN <<Head(s)>> \o SelectIds(Tail(s), keep)
         ELSE SelectIds(Tail(s), keep)

Range(s) == {s[i] : i \in 1..Len(s)}

\* -------------------------------------------------------------- fractions
\* Rates, similarities and confidences are fractions of integers, kept in lowest
\* terms; the floating-point rounding of the code is not modelled.
RECURSIVE GCD(_, _)
GCD(a, b) == IF b = 0 THEN a ELSE GCD(b, a % b)

Rat(n, d) == LET g == GCD(n, d) IN [num |-> n \div g, den |-> d \div g]
RatAdd(a, b) == Rat(a.num * b.den + b.num * a.den, a.den * b.den)
RatMul(a, b) == Rat(a.num * b.num, a.den * b.den)
RatInv(a) == Rat(a.den, a.num)
RatLess(a, b) == a.num * b.den < b.num * a.den
Percent(p) == Rat(p, 100)

\* ------------------------------------------------------- the runtime state
\* The fields the synchronous helpers read and write, as one value.
This == [obj |-> sandboxObj, sandboxes |-> sandboxes, pool |-> pool,
         metrics |-> metrics, destroyed |-> destroyed, cause |-> cause]

Commit(r) ==
    /\ sandboxObj' = r.obj
    /\ sandboxes' = r.sandboxes
    /\ pool' = r.pool
    /\ metrics' = r.metrics
    /\ destroyed' = r.destroyed
    /\ cause' = r.cause

AbsentSandbox == [status |-> "absent", createdAt |-> 0, lastUsedAt |-> 0,
                  executionCount |-> 0, allowedTools |-> {}]

IdleExec == [pc |-> "idle", tool |-> NoTool,
             sandbox |-> NoSandbox, startTime |-> 0, due |-> 0]

NoEvent == [op |-> "init", sandbox |-> NoSandbox, hit |-> FALSE,
            success |-> FALSE, code |-> "", executionMs |-> 0, timeoutMs |-> 0,
            evicted |-> {}, reaped |-> {}]

\* A destroySandbox that forgets the active counter.
destroySandboxNoCount(r, id, why) ==
    [r EXCEPT !.obj[id].status = "destroyed",
              !.sandboxes = @ \ {id},
              !.destroyed = @ + 1,
              !.cause[id] = why]

\* destroySandbox(sandbox); `why` names the caller, for the history only
destroySandbox(r, id, why) ==
    [r EXCEPT !.obj[id].status = "destroyed",
              !.sandboxes = @ \ {id},
              !.metrics.activeSandboxes = @ - 1,
              !.destroyed = @ + 1,
              !.cause[id] = why]

\* getFromPool(): the pool's ready sandboxes, least recently used first
\* (Array.prototype.sort is stable: equal lastUsedAt keep the pool's order).
Available(r) ==
    SelectIds(r.pool, {id \in Ids : r.obj[id].status = "ready"})

LeastRecentlyUsed(r) ==
    LET a == Available(r)
        i == CHOOSE i \in 1..Len(a) :
                 /\ \A j \in 1..Len(a) : r.obj[a[i]].lastUsedAt <= r.obj[a[j]].lastUsedAt
                 /\ \A j \in 1..(i - 1) : r.obj[a[j]].lastUsedAt > r.obj[a[i]].lastUsedAt
    IN  a[i]

PoolHit(r) == Available(r) # <<>>

\* A getFromPool that marks the sandbox running but leaves it in the pool.
getFromPoolNoRemove(r) ==
    [r EXCEPT !.obj[LeastRecentlyUsed(r)].status = "running"]

getFromPool(r) ==
    LET id == LeastRecentlyUsed(r)
    IN  [r EXCEPT !.pool = SelectIds(@, Ids \ {id}),
                  !.obj[id].status = "running"]

\* calculatePoolHitRate(hit): current * 0.9 + (hit ? 1 : 0) * 0.1
calculatePoolHitRate(current, hit) ==
    Rat(current.num * 9 + (IF hit THEN 1 ELSE 0) * current.den, current.den * 10)

\* the number of pool hits so far: each one multiplies the denominator by 10
RECURSIVE Log10(_)
Log10(d) == IF d < 10 THEN 0 ELSE 1 + Log10(d \div 10)

\* A returnToPool that destroys pool[0] without shifting it out.
returnToPoolNoShift(r, id) ==
    LET r1 == IF Len(r.pool) >= config.maxInstances /\ r.pool # <<>>
              THEN destroySandbox(r, Head(r.pool), "eviction")
              ELSE r
    IN  [r1 EXCEPT !.obj[id].status = "ready",
                   !.pool = Append(@, id)]

\* A returnToPool that never evicts.
returnToPoolNoEvict(r, id) ==
    [r EXCEPT !.obj[id].status = "ready",
              !.pool = Append(@, id)]

\* returnToPool(sandbox)
returnToPool(r, id) ==
    LET full == Len(r.pool) >= config.maxInstances
        r1 == IF full /\ r.pool # <<>>
              THEN destroySandbox([r EXCEPT !.pool = Tail(@)], Head(r.pool), "eviction")
              ELSE r
    IN  [r1 EXCEPT !.obj[id].status = "ready",
                   !.pool = Append(@, id)]

Evicted(r) ==
    IF Len(r.pool) >= config.maxInstances /\ r.pool # <<>> THEN {Head(r.pool)} ELSE {}

\* createSandbox(config), the part after `await sleep(100)`
registerSandbox(r, id, startTime, allowed) ==
    [r EXCEPT !.obj[id] = [status |-> "ready", createdAt |-> startTime,
                           lastUsedAt |-> startTime, executionCount |-> 0,
                           allowedTools |-> allowed],
              !.sandboxes = @ \cup {id},
              !.metrics.totalSandboxes = @ + 1,
              !.metrics.activeSandboxes = @ + 1]

\* ------------------------------------------------------------------ timers
PendingDue ==
    {exec[p].due : p \in {q \in Procs : exec[q].pc \in {"creating", "running"}}}
        \cup {w.due : w \in warm}

TimerFires(due) ==
    /\ due <= clock
    /\ \A d \in PendingDue : due <= d

\* ----------------------------------------------------------------- Init
SandboxInit ==
    /\ clock = 0
    /\ config \in [minInstances : 0..MaxMinInstances,
                   maxInstances : 1..MaxMaxInstances,
                   idleTimeoutMs : IdleTimeoutChoices]
    /\ sandboxObj = [id \in Ids |-> AbsentSandbox]
    /\ sandboxes = {}
    /\ pool = <<>>
    /\ metrics = [totalSandboxes |-> 0, activeSandboxes |-> 0,
                  poolHitRate |-> Rat(0, 1)]
    /\ nextId = 1
    /\ exec = [p \in Procs |-> IdleExec]
    /\ warm = {}
    /\ destroyed = 0
    /\ cause = [id \in Ids |-> ""]
    /\ ev = NoEvent

\* ---------------------------------------------------------------- actions
\* runInSandbox(sandbox, tool, args, timeoutMs) up to its `await sleep(50)`
StartRun(p, id, tool) ==
    exec' = [exec EXCEPT ![p] = [pc |-> "running", tool |-> tool, sandbox |-> id,
                                 startTime |-> clock, due |-> clock + SleepRunMs]]

\* execute(tool, args, timeoutMs) up to its first suspension
ExecuteHit(p, tool) ==
    /\ exec[p].pc = "idle"
    /\ PoolHit(This)
    /\ Log10(metrics.poolHitRate.den) < MaxPoolHits
    /\ LET id == LeastRecentlyUsed(This)
           r1 == getFromPool(This)
       IN  /\ Commit([r1 EXCEPT !.metrics.poolHitRate =
                                     calculatePoolHitRate(@, TRUE)])
           /\ StartRun(p, id, tool)
           /\ ev' = [NoEvent EXCEPT !.op = "execute", !.sandbox = id, !.hit = TRUE]
    /\ UNCHANGED <<clock, config, nextId, warm>>
    /\ UNCHANGED <<streamVars, libVars>>

ExecuteMiss(p, tool) ==
    /\ exec[p].pc = "idle"
    /\ ~PoolHit(This)
    /\ tool # NoTool
    /\ nextId <= MaxSandboxes
    /\ exec' = [exec EXCEPT ![p] = [pc |-> "creating", tool |-> tool,
                                    sandbox |-> nextId,
                                    startTime |-> clock,
                                    due |-> clock + SleepCreateMs]]
    /\ nextId' = nextId + 1
    /\ ev' = [NoEvent EXCEPT !.op = "execute"]
    /\ UNCHANGED <<clock, config, sandboxObj, sandboxes, pool, metrics, warm,
                   destroyed, cause>>
    /\ UNCHANGED <<streamVars, libVars>>

\* execute() with no tool on a pool miss: `tool.id` throws before createSandbox
\* is called; the catch block finds no sandbox and returns the failure.
ExecuteThrows(p) ==
    /\ exec[p].pc = "idle"
    /\ ~PoolHit(This)
    /\ ev' = [NoEvent EXCEPT !.op = "failed", !.code = "EXECUTION_ERROR"]
    /\ UNCHANGED <<clock, config, sandboxObj, sandboxes, pool, metrics, nextId,
                   exec, warm, destroyed, cause>>
    /\ UNCHANGED <<streamVars, libVars>>

\* createSandbox resumes after its sleep; execute goes on to runInSandbox
CreateDone(p) ==
    /\ exec[p].pc = "creating"
    /\ TimerFires(exec[p].due)
    /\ Commit(registerSandbox(This, exec[p].sandbox, exec[p].startTime,
                              {exec[p].tool}))
    /\ StartRun(p, exec[p].sandbox, exec[p].tool)
    /\ ev' = [NoEvent EXCEPT !.op = "created", !.sandbox = exec[p].sandbox]
    /\ UNCHANGED <<clock, config, nextId, warm>>
    /\ UNCHANGED <<streamVars, libVars>>

\* runInSandbox resumes after its sleep and returns; execute updates the
\* sandbox, returns it to the pool and returns the result
RunSucceeds(p, timeoutMs) ==
    /\ exec[p].pc = "running"
    /\ TimerFires(exec[p].due)
    /\ exec[p].tool # NoTool
    /\ LET id == exec[p].sandbox
           r1 == [This EXCEPT !.obj[id].lastUsedAt = clock,
                              !.obj[id].executionCount = @ + 1]
       IN  /\ Commit(returnToPool(r1, id))
           /\ ev' = [NoEvent EXCEPT !.op = "returned", !.sandbox = id,
                                    !.success = TRUE,
                                    !.executionMs = clock - exec[p].startTime,
                                    !.timeoutMs = timeoutMs,
                                    !.evicted = Evicted(r1)]
    /\ exec' = [exec EXCEPT ![p] = IdleExec]
    /\ UNCHANGED <<clock, config, nextId, warm>>
    /\ UNCHANGED <<streamVars, libVars>>

\* A catch block that hands the sandbox back to the pool.
RunThrowsReturns(p, timeoutMs) ==
    /\ exec[p].pc = "running"
    /\ TimerFires(exec[p].due)
    /\ exec[p].tool = NoTool
    /\ Commit(returnToPool(This, exec[p].sandbox))
    /\ ev' = [NoEvent EXCEPT !.op = "failed", !.sandbox = exec[p].sandbox,
                             !.code = "EXECUTION_ERROR",
                             !.executionMs = clock - exec[p].startTime,
                             !.timeoutMs = timeoutMs,
                             !.evicted = Evicted(This)]
    /\ exec' = [exec EXCEPT ![p] = IdleExec]
    /\ UNCHANGED <<clock, config, nextId, warm>>
    /\ UNCHANGED <<streamVars, libVars>>

\* runInSandbox resumes and `tool.name` throws: the catch block destroys the
\* sandbox and returns the failure
RunThrows(p, timeoutMs) ==
    /\ exec[p].pc = "running"
    /\ TimerFires(exec[p].due)
    /\ exec[p].tool = NoTool
    /\ Commit(destroySandbox(This, exec[p].sandbox, "failure"))
    /\ ev' = [NoEvent EXCEPT !.op = "failed", !.sandbox = exec[p].sandbox,
                             !.code = "EXECUTION_ERROR",
                             !.executionMs = clock - exec[p].startTime,
                             !.timeoutMs = timeoutMs]
    /\ exec' = [exec EXCEPT ![p] = IdleExec]
    /\ UNCHANGED <<clock, config, nextId, warm>>
    /\ UNCHANGED <<streamVars, libVars>>

\* maintainPool(): reap the idle sandboxes, then start the warm-up creations
\* An idle test that is off by one: >= for >.
IdleAtLeast(r, id) == clock - r.obj[id].lastUsedAt >= config.idleTimeoutMs

Idle(r, id) == clock - r.obj[id].lastUsedAt > config.idleTimeoutMs

RECURSIVE destroyAll(_, _)
destroyAll(r, ids) ==
    IF ids = {} THEN r
    ELSE LET id == CHOOSE x \in ids : TRUE
         IN  destroyAll(destroySandbox(r, id, "reap"), ids \ {id})

reapIdle(r) ==
    LET idle == {id \in Range(r.pool) : Idle(r, id)}
    IN  destroyAll([r EXCEPT !.pool = SelectIds(@, Ids \ idle)], idle)

Needed(r) ==
    IF config.minInstances - Len(r.pool) > 0
    THEN config.minInstances - Len(r.pool) ELSE 0

MaintainPool ==
    LET r1 == reapIdle(This)
        n == Needed(r1)
    IN  /\ nextId + n <= MaxSandboxes + 1
        /\ Commit(r1)
        /\ warm' = warm \cup {[id |-> nextId + i, startTime |-> clock,
                               due |-> clock + SleepCreateMs] : i \in 0..(n - 1)}
        /\ nextId' = nextId + n
        /\ ev' = [NoEvent EXCEPT !.op = "maintain",
                                 !.reaped = Range(pool) \ Range(r1.pool)]
        /\ UNCHANGED <<clock, config, exec>>
        /\ UNCHANGED <<streamVars, libVars>>

\* a warm-up createSandbox resumes; its .then() returns the sandbox to the pool
WarmDone(w) ==
    /\ w \in warm
    /\ TimerFires(w.due)
    /\ LET r1 == registerSandbox(This, w.id, w.startTime, {})
       IN  /\ Commit(returnToPool(r1, w.id))
           /\ ev' = [NoEvent EXCEPT !.op = "warmed", !.sandbox = w.id,
                                    !.evicted = Evicted(r1)]
    /\ warm' = warm \ {w}
    /\ UNCHANGED <<clock, config, nextId, exec>>
    /\ UNCHANGED <<streamVars, libVars>>

Tick ==
    /\ clock < MaxTicks * TickMs
    /\ \A d \in PendingDue : clock < d
    /\ clock' = clock + TickMs
    /\ ev' = [NoEvent EXCEPT !.op = "tick"]
    /\ UNCHANGED <<config, sandboxObj, sandboxes, pool, metrics, nextId, exec,
                   warm, destroyed, cause>>
    /\ UNCHANGED <<streamVars, libVars>>

Next ==
    \/ \E p \in Procs, tool \in ToolArgs : ExecuteHit(p, tool)
    \/ \E p \in Procs, tool \in Tools : ExecuteMiss(p, tool)
    \/ \E p \in Procs : ExecuteThrows(p)
    \/ \E p \in Procs : CreateDone(p)
    \/ \E p \in Procs, t \in TimeoutChoices : RunSucceeds(p, t)
    \/ \E p \in Procs, t \in TimeoutChoices : RunThrows(p, t)
    \/ MaintainPool
    \/ \E w \in warm : WarmDone(w)
    \/ Tick

\* ===================================================================
\* Part II: AuditStream
\* ===================================================================
Handlers == 1..MaxHandlers
Traces == 1..MaxTraces
EntryIds == 1..MaxEntries

\* What a subscriber's handler does with a batch, besides receiving it:
\* handler 2 throws, handler 3 writes one more entry to the stream.
HandlerKind(h) == CASE h = 2 -> "throws" [] h = 3 -> "writes" [] OTHER -> "records"

\* What query() is called with: AuditFilter.  Only traceId is modelled; an
\* absent field is NoTrace (undefined) and EmptyTrace is the string "", the
\* two values of the field that are falsy.
NoTrace == 0 - 1
EmptyTrace == 0
Falsy(x) == x \in {NoTrace, EmptyTrace}
Filters == [traceId : Traces \cup {NoTrace, EmptyTrace}]
NoQuery == [op |-> "none", filter |-> [traceId |-> NoTrace], result |-> <<>>]

\* The fields write() and flush() read and write, as one value.  thrown is
\* the exception in flight, if any: a call starts with none.
Stream == [buffer |-> buffer, handlers |-> handlers, nextEntry |-> nextEntry,
           received |-> received, persisted |-> persisted, written |-> written,
           audience |-> audience, handlerErrors |-> handlerErrors,
           thrown |-> FALSE]

CommitStream(st) ==
    /\ buffer' = st.buffer
    /\ handlers' = st.handlers
    /\ nextEntry' = st.nextEntry
    /\ received' = st.received
    /\ persisted' = st.persisted
    /\ written' = st.written
    /\ audience' = st.audience
    /\ handlerErrors' = st.handlerErrors
    /\ uncaught' = st.thrown
    /\ queried' = NoQuery

NewEntry(st, t) == [id |-> st.nextEntry, traceId |-> t]

RECURSIVE write(_, _), flush(_), notify(_, _, _), callHandler(_, _, _)
RECURSIVE tryHandler(_, _, _), tryHandlerNoCatch(_, _, _)
RECURSIVE flushKeepsBuffer(_)

\* persist(entries)
persist(st, entries) == [st EXCEPT !.persisted = Append(@, entries)]

\* handler(entries): the subscriber's function
callHandler(st, h, entries) ==
    LET st1 == [st EXCEPT !.received[h] = Append(@, entries)]
    IN  CASE HandlerKind(h) = "throws" ->
                [st1 EXCEPT !.thrown = TRUE]
          [] HandlerKind(h) = "writes" /\ st1.nextEntry <= MaxEntries ->
                write([st1 EXCEPT !.nextEntry = @ + 1], NewEntry(st1, 1))
          [] OTHER -> st1

\* A call of the handler with no try/catch around it.
tryHandlerNoCatch(st, h, entries) == callHandler(st, h, entries)

\* try { handler(entries) } catch (error) { console.error(...) }
tryHandler(st, h, entries) ==
    LET r == callHandler(st, h, entries)
    IN  IF r.thrown
        THEN [r EXCEPT !.thrown = FALSE, !.handlerErrors = @ + 1]
        ELSE r

\* for (const handler of this.handlers) ..., from the i-th handler on; an
\* exception that leaves the loop body ends the loop
notify(st, i, entries) ==
    IF i > Len(st.handlers) \/ st.thrown THEN st
    ELSE notify(tryHandler(st, st.handlers[i], entries), i + 1, entries)

\* A flush that hands the batch over and forgets to detach the buffer.
flushKeepsBuffer(st) ==
    IF st.buffer = <<>> THEN st
    ELSE LET entries == st.buffer
             st1 == [st EXCEPT !.audience =
                        [e \in EntryIds |->
                            IF \E i \in 1..Len(entries) : entries[i].id = e
                            THEN Range(st.handlers) ELSE @[e]]]
             st2 == notify(st1, 1, entries)
         IN  IF st2.thrown THEN st2 ELSE persist(st2, entries)

\* flush()
flush(st) ==
    IF st.buffer = <<>> THEN st
    ELSE LET entries == st.buffer
             st1 == [st EXCEPT !.buffer = <<>>,
                               !.audience =
                                   [e \in EntryIds |->
                                       IF \E i \in 1..Len(entries) : entries[i].id = e
                                       THEN Range(st.handlers) ELSE @[e]]]
             st2 == notify(st1, 1, entries)
         IN  IF st2.thrown THEN st2 ELSE persist(st2, entries)

\* matchesFilter(entry, filter): the five other fields of the filter are
\* absent, so their lines are skipped
matchesFilter(entry, filter) ==
    ~(~Falsy(filter.traceId) /\ entry.traceId # filter.traceId)

\* A filter that compares the wrong way round.
queryOthers(st, filter) ==
    SelectSeq(st.buffer, LAMBDA entry : ~matchesFilter(entry, filter))

\* query(filter): this.buffer.filter(...)
query(st, filter) ==
    SelectSeq(st.buffer, LAMBDA entry : matchesFilter(entry, filter))

\* write(entry)
write(st, entry) ==
    LET st1 == [st EXCEPT !.buffer = Append(@, entry),
                          !.written = Append(@, entry)]
    IN  IF Len(st1.buffer) >= streamConfig.bufferSize THEN flush(st1) ELSE st1

\* writeBatch(entries)
writeBatch(st, entries) ==
    LET st1 == [st EXCEPT !.buffer = @ \o entries,
                          !.written = @ \o entries]
    IN  IF Len(st1.buffer) >= streamConfig.bufferSize THEN flush(st1) ELSE st1

StreamInit ==
    /\ buffer = <<>>
    /\ streamConfig \in [bufferSize : 1..MaxBufferSize]
    /\ handlers = <<>>
    /\ flushTimer = TRUE
    /\ nextEntry = 1
    /\ received = [h \in Handlers |-> <<>>]
    /\ persisted = <<>>
    /\ written = <<>>
    /\ audience = [e \in EntryIds |-> {}]
    /\ handlerErrors = 0
    /\ uncaught = FALSE
    /\ queried = NoQuery

\* a caller writes a new entry
Write(t) ==
    /\ nextEntry <= MaxEntries
    /\ CommitStream(write([Stream EXCEPT !.nextEntry = @ + 1], NewEntry(Stream, t)))
    /\ UNCHANGED <<streamConfig, flushTimer>>
    /\ UNCHANGED <<sandboxVars, libVars>>

\* a caller writes two new entries at once
WriteBatch(t1, t2) ==
    /\ nextEntry + 1 <= MaxEntries
    /\ CommitStream(writeBatch([Stream EXCEPT !.nextEntry = @ + 2],
                               <<NewEntry(Stream, t1),
                                 [id |-> nextEntry + 1, traceId |-> t2]>>))
    /\ UNCHANGED <<streamConfig, flushTimer>>
    /\ UNCHANGED <<sandboxVars, libVars>>

\* subscribe(handler): Set.add
Subscribe(h) ==
    /\ handlers' = IF h \in Range(handlers) THEN handlers ELSE Append(handlers, h)
    /\ uncaught' = FALSE
    /\ queried' = NoQuery
    /\ UNCHANGED <<buffer, streamConfig, flushTimer, nextEntry, received,
                   persisted, written, audience, handlerErrors>>
    /\ UNCHANGED <<sandboxVars, libVars>>

\* the function subscribe() returned: Set.delete
Unsubscribe(h) ==
    /\ handlers' = SelectIds(handlers, Handlers \ {h})
    /\ uncaught' = FALSE
    /\ queried' = NoQuery
    /\ UNCHANGED <<buffer, streamConfig, flushTimer, nextEntry, received,
                   persisted, written, audience, handlerErrors>>
    /\ UNCHANGED <<sandboxVars, libVars>>

\* the interval timer of startFlushTimer fires
TimerFlush ==
    /\ flushTimer
    /\ CommitStream(flush(Stream))
    /\ UNCHANGED <<streamConfig, flushTimer>>
    /\ UNCHANGED <<sandboxVars, libVars>>

\* stop()
Stop ==
    /\ flushTimer' = FALSE
    /\ CommitStream(flush(Stream))
    /\ UNCHANGED streamConfig
    /\ UNCHANGED <<sandboxVars, libVars>>

\* a caller calls query(filter) and awaits the result
Query(filter) ==
    /\ queried' = [op |-> "query", filter |-> filter,
                   result |-> query(Stream, filter)]
    /\ uncaught' = FALSE
    /\ UNCHANGED <<buffer, streamConfig, handlers, flushTimer, nextEntry,
                   received, persisted, written, audience, handlerErrors>>
    /\ UNCHANGED <<sandboxVars, libVars>>

StreamSpecNext ==
    \/ \E t \in Traces : Write(t)
    \/ \E t1, t2 \in Traces : WriteBatch(t1, t2)
    \/ \E h \in Handlers : Subscribe(h)
    \/ \E h \in Handlers : Unsubscribe(h)
    \/ TimerFlush
    \/ Stop

QuerySpecNext ==
    \/ \E t \in Traces : Write(t)
    \/ \E t1, t2 \in Traces : WriteBatch(t1, t2)
    \/ \E h \in Handlers : Subscribe(h)
    \/ \E h \in Handlers : Unsubscribe(h)
    \/ TimerFlush
    \/ Stop
    \/ \E filter \in Filters : Query(filter)

\* ===================================================================
\* Part III: InMemoryEmbeddingCache
\* ===================================================================
DefaultTtlMs == 300000
Keys == 1..MaxKeys
Vectors == 1..MaxVectors           \* the embeddings (number[]) stored
Undefined == 0 - 1                 \* Map.get of an absent key; a miss

\* The two Maps, as one value.
Cache == [cache |-> cache, timestamps |-> timestamps]

\* A get that expires an entry as soon as its age reaches the TTL.
getExpiresAtTtl(c, key) ==
    LET timestamp == c.timestamps[key]
    IN  IF timestamp = Undefined \/ timestamp = 0
        THEN [c |-> c, result |-> Undefined]
        ELSE IF now - timestamp >= ttlMs
        THEN [c |-> [cache |-> [c.cache EXCEPT ![key] = Undefined],
                     timestamps |-> [c.timestamps EXCEPT ![key] = Undefined]],
              result |-> Undefined]
        ELSE [c |-> c, result |-> c.cache[key]]

\* get(key): the Maps afterwards and the value returned.  !timestamp is
\* true of undefined and of 0.
get(c, key) ==
    LET timestamp == c.timestamps[key]
    IN  IF timestamp = Undefined \/ timestamp = 0
        THEN [c |-> c, result |-> Undefined]
        ELSE IF now - timestamp > ttlMs
        THEN [c |-> [cache |-> [c.cache EXCEPT ![key] = Undefined],
                     timestamps |-> [c.timestamps EXCEPT ![key] = Undefined]],
              result |-> Undefined]
        ELSE [c |-> c, result |-> c.cache[key]]

\* set(key, embedding)
set(c, key, embedding) ==
    [cache |-> [c.cache EXCEPT ![key] = embedding],
     timestamps |-> [c.timestamps EXCEPT ![key] = now]]

NoSet == [value |-> Undefined, at |-> 0]
NoCacheEvent == [op |-> "none", key |-> 0, value |-> Undefined,
                 result |-> Undefined]

\* new InMemoryEmbeddingCache(ttlMs), some time after the epoch
CacheInit ==
    /\ cache = [k \in Keys |-> Undefined]
    /\ timestamps = [k \in Keys |-> Undefined]
    /\ ttlMs \in 0..MaxTtl
    /\ now = 1
    /\ lastSet = [k \in Keys |-> NoSet]
    /\ cacheEv = NoCacheEvent

\* the cache of a gateway whose embedding service is not called
CacheIdle ==
    /\ cache = [k \in Keys |-> Undefined]
    /\ timestamps = [k \in Keys |-> Undefined]
    /\ ttlMs = DefaultTtlMs
    /\ now = 1
    /\ lastSet = [k \in Keys |-> NoSet]
    /\ cacheEv = NoCacheEvent

\* a caller reads a key
CacheGet(key) ==
    /\ now < MaxCacheClock
    /\ LET r == get(Cache, key)
       IN  /\ cache' = r.c.cache
           /\ timestamps' = r.c.timestamps
           /\ cacheEv' = [op |-> "get", key |-> key, value |-> Undefined,
                          result |-> r.result]
    /\ UNCHANGED <<ttlMs, now, lastSet>>
    /\ UNCHANGED <<sandboxVars, streamVars, routerVars, adapterVars, viewVars>>

\* a caller writes a key
CacheSet(key, embedding) ==
    /\ now < MaxCacheClock
    /\ LET c == set(Cache, key, embedding)
       IN  /\ cache' = c.cache
           /\ timestamps' = c.timestamps
    /\ lastSet' = [lastSet EXCEPT ![key] = [value |-> embedding, at |-> now]]
    /\ cacheEv' = [op |-> "set", key |-> key, value |-> embedding,
                   result |-> Undefined]
    /\ UNCHANGED <<ttlMs, now>>
    /\ UNCHANGED <<sandboxVars, streamVars, routerVars, adapterVars, viewVars>>

\* clear()
CacheClear ==
    /\ now < MaxCacheClock
    /\ cache' = [k \in Keys |-> Undefined]
    /\ timestamps' = [k \in Keys |-> Undefined]
    /\ lastSet' = [k \in Keys |-> NoSet]
    /\ cacheEv' = [op |-> "clear", key |-> 0, value |-> Undefined,
                   result |-> Undefined]
    /\ UNCHANGED <<ttlMs, now>>
    /\ UNCHANGED <<sandboxVars, streamVars, routerVars, adapterVars, viewVars>>

\* a millisecond passes
CacheTick ==
    /\ now < MaxCacheClock
    /\ now' = now + 1
    /\ cacheEv' = NoCacheEvent
    /\ UNCHANGED <<cache, timestamps, ttlMs, lastSet>>
    /\ UNCHANGED <<sandboxVars, streamVars, routerVars, adapterVars, viewVars>>

CacheSpecNext ==
    \/ \E key \in Keys : CacheGet(key)
    \/ \E key \in Keys, embedding \in Vectors : CacheSet(key, embedding)
    \/ CacheClear
    \/ CacheTick

\* ------------------------------------------------------ EmbeddingService
\* Tool names and intent actions are numbered 1..MaxKeys, descriptions and
\* intent targets 1..MaxVectors.  Every intent has the same category and the
\* empty parameters object, which enter its key and its text alike.  A
\* string is modelled by a number that determines it.
ToolNames == 1..MaxKeys
Descriptions == 1..MaxVectors
Intents == [category : {1}, action : 1..MaxKeys,
            target : 1..MaxVectors]

\* `tool:${toolName}`
toolCacheKey(toolName) == 100 + toolName

\* generateCacheKey(intent):
\* `intent:${category}:${action}:${JSON.stringify(parameters)}`
generateCacheKey(intent) == 200 + 10 * intent.category + intent.action

EmbedKeys ==
    {toolCacheKey(n) : n \in ToolNames} \cup {generateCacheKey(i) : i \in Intents}

\* `${toolName}: ${description}`
toolText(toolName, description) == 1000 + 10 * toolName + description

\* intentToText(intent): the Action, Category and Target lines
intentToText(intent) ==
    2000 + 100 * intent.category + 10 * intent.action + intent.target

\* callEmbeddingAPI(text): a vector computed from the text alone (its hash
\* seeds the generator).  A vector is named by the text it is computed from.
callEmbeddingAPI(text) == text

\* generateEmbedding(intent)
generateEmbedding(intent) == callEmbeddingAPI(intentToText(intent))

\* The body shared by embedIntent and embedToolDescription: the cache
\* afterwards and the embedding returned.  An array is truthy.
embed(c, cacheKey, text) ==
    LET r == get(c, cacheKey)
    IN  IF r.result # Undefined
        THEN [c |-> r.c, embedding |-> r.result, generated |-> FALSE]
        ELSE LET embedding == callEmbeddingAPI(text)
             IN  [c |-> set(r.c, cacheKey, embedding), embedding |-> embedding,
                  generated |-> TRUE]

\* new EmbeddingService({cacheTtlMs})
EmbedInit ==
    /\ cache = [k \in EmbedKeys |-> Undefined]
    /\ timestamps = [k \in EmbedKeys |-> Undefined]
    /\ ttlMs \in {1, DefaultTtlMs}
    /\ now = 1
    /\ lastSet = [k \in EmbedKeys |-> NoSet]
    /\ cacheEv = NoCacheEvent

CommitEmbed(op, cacheKey, text, r) ==
    /\ cache' = r.c.cache
    /\ timestamps' = r.c.timestamps
    /\ lastSet' = IF r.generated
                  THEN [lastSet EXCEPT ![cacheKey] = [value |-> r.embedding, at |-> now]]
                  ELSE lastSet
    /\ cacheEv' = [op |-> op, key |-> cacheKey, value |-> text,
                   result |-> r.embedding]
    /\ UNCHANGED <<ttlMs, now>>
    /\ UNCHANGED <<sandboxVars, streamVars, routerVars, adapterVars, viewVars>>

\* embedToolDescription(toolName, description), awaited by its caller
EmbedToolDescription(toolName, description) ==
    /\ now < MaxCacheClock
    /\ CommitEmbed("embedToolDescription", toolCacheKey(toolName),
                   toolText(toolName, description),
                   embed(Cache, toolCacheKey(toolName),
                         toolText(toolName, description)))

\* embedIntent(intent), awaited by its caller
EmbedIntent(intent) ==
    /\ now < MaxCacheClock
    /\ CommitEmbed("embedIntent", generateCacheKey(intent), intentToText(intent),
                   embed(Cache, generateCacheKey(intent), intentToText(intent)))

EmbedSpecNext ==
    \/ \E n \in ToolNames, d \in Descriptions : EmbedToolDescription(n, d)
    \/ \E i \in Intents : EmbedIntent(i)
    \/ CacheTick

\* ===================================================================
\* Part IV: IntentRouter
\* ===================================================================
\* SEMANTIC_ROUTING
DefaultSimilarityThreshold == 85
DefaultMinConfidence == 70
DefaultMaxAlternatives == 3
ApprovalBelow == Rat(8, 10)        \* bestMatch.confidence < 0.8

\* The tool definitions of the catalogs: an id, the cosine similarity of the
\* tool's embedding to the intent's (in percent), and the two optional
\* estimates.  Tools with the same name and description have the same
\* similarity.
ToolIds == 1..MaxCatalog
Similarities == {80, 85, 90}
CostChoices == {Undefined, 100}        \* costEstimate.min, or no costEstimate
LatencyChoices == {Undefined, 1000}    \* latencyEstimate
ToolDefinitions == [id : ToolIds, similarity : Similarities,
                    costEstimate : CostChoices,
                    latencyEstimate : LatencyChoices]

\* catalogs: up to MaxCatalog tools with distinct ids, in any order
Catalogs ==
    UNION {{c \in [1..n -> ToolDefinitions] :
               \A i, j \in 1..n : i # j => c[i].id # c[j].id} :
           n \in 0..MaxCatalog}

RouteOptionChoices == [maxAlternatives : {Undefined, 0, 1},
                       minConfidence : {Undefined, 90}]

\* x || y on numbers: undefined and 0 are falsy
OrElse(x, y) == IF x = Undefined \/ x = 0 THEN y ELSE x

\* clamp(value, 0, 1)
clamp01(v) ==
    IF RatLess(Rat(1, 1), v) THEN Rat(1, 1)
    ELSE IF RatLess(v, Rat(0, 1)) THEN Rat(0, 1) ELSE v

\* calculateConfidence(similarity, tool)
calculateConfidence(similarity, tool, cfg) ==
    LET c0 == Percent(similarity)
        c1 == IF cfg.enableCostOptimization /\ tool.costEstimate # Undefined
              THEN LET costFactor ==
                           RatInv(RatAdd(Rat(1, 1), Rat(tool.costEstimate, 100)))
                   IN  RatMul(c0, RatAdd(Rat(9, 10), RatMul(Rat(1, 10), costFactor)))
              ELSE c0
        c2 == IF /\ cfg.enableLatencyOptimization
                 /\ tool.latencyEstimate # Undefined /\ tool.latencyEstimate # 0
              THEN LET latencyFactor ==
                           RatInv(RatAdd(Rat(1, 1), Rat(tool.latencyEstimate, 1000)))
                   IN  RatMul(c1, RatAdd(Rat(9, 10), RatMul(Rat(1, 10), latencyFactor)))
              ELSE c1
    IN  clamp01(c2)

\* matchTools(intentEmbedding, tools)
RECURSIVE matchTools(_, _)
matchTools(tools, cfg) ==
    IF tools = <<>> THEN <<>>
    ELSE LET tool == Head(tools)
             similarity == tool.similarity
             confidence == calculateConfidence(similarity, tool, cfg)
             rest == matchTools(Tail(tools), cfg)
         IN  IF similarity >= cfg.similarityThreshold
             THEN <<[tool |-> tool, score |-> similarity,
                     confidence |-> confidence]>> \o rest
             ELSE rest

\* Array.prototype.sort with (a, b) => b.score - a.score: a stable sort
RECURSIVE insertByScore(_, _), sortByScore(_)
insertByScore(m, sorted) ==
    IF sorted = <<>> THEN <<m>>
    ELSE IF Head(sorted).score >= m.score
         THEN <<Head(sorted)>> \o insertByScore(m, Tail(sorted))
         ELSE <<m>> \o sorted

\* A sort that puts the lowest score first.
RECURSIVE sortByScoreAscending(_)
sortByScoreAscending(ms) ==
    IF ms = <<>> THEN <<>>
    ELSE LET rest == sortByScoreAscending(Tail(ms))
         IN  IF \A i \in 1..Len(rest) : Head(ms).score <= rest[i].score
             THEN <<Head(ms)>> \o rest
             ELSE <<Head(rest)>> \o sortByScoreAscending(<<Head(ms)>> \o Tail(rest))

sortByScore(ms) ==
    IF ms = <<>> THEN <<>>
    ELSE insertByScore(ms[Len(ms)], sortByScore(SubSeq(ms, 1, Len(ms) - 1)))

\* Array.prototype.slice(from, to), 0-based, to exclusive
slice(s, from, to) ==
    SubSeq(s, from + 1, IF to < Len(s) THEN to ELSE Len(s))

\* An approval test that also asks approval at exactly 0.8.
requiresApprovalAtMost(confidence) == ~RatLess(ApprovalBelow, confidence)

\* bestMatch.confidence < 0.8
requiresApproval(confidence) == RatLess(confidence, ApprovalBelow)

\* (confidence * 100).toFixed(1), in tenths of a percent
toFixed1(confidence) ==
    (2000 * confidence.num + confidence.den) \div (2 * confidence.den)

NoRouteResult == [success |-> FALSE, decision |-> Undefined, error |-> "",
                  alternatives |-> <<>>]

\* route(request), for a request with a normalized intent
route(req, cfg) ==
    LET matches == matchTools(req.availableTools, cfg)
        minConfidence == OrElse(req.options.minConfidence, cfg.minConfidence)
        validMatches == SelectSeq(matches,
                            LAMBDA m : ~RatLess(m.confidence, Percent(minConfidence)))
    IN  IF validMatches = <<>>
        THEN [success |-> FALSE, decision |-> Undefined, error |-> "NO_MATCH",
              alternatives |-> slice(matches, 0, 3)]
        ELSE LET sorted == sortByScore(validMatches)
                 bestMatch == sorted[1]
                 maxAlternatives ==
                     OrElse(req.options.maxAlternatives, cfg.maxAlternatives)
                 fallback == slice(sorted, 1, maxAlternatives + 1)
             IN  [success |-> TRUE,
                  decision |->
                      [selectedTool |-> bestMatch.tool,
                       confidence |-> bestMatch.confidence,
                       fallbackTools |->
                           [i \in 1..Len(fallback) |-> fallback[i].tool],
                       estimatedLatency |->
                           OrElse(bestMatch.tool.latencyEstimate, 100),
                       estimatedCost |->
                           OrElse(bestMatch.tool.costEstimate, 0),
                       requiresApproval |-> requiresApproval(bestMatch.confidence),
                       \* `Low confidence (${...toFixed(1)}%)`: its number
                       approvalReason |->
                           IF requiresApproval(bestMatch.confidence)
                           THEN toFixed1(bestMatch.confidence)
                           ELSE Undefined],
                  error |-> "",
                  alternatives |-> slice(sorted, 1, Len(sorted))]

DefaultRouterConfig ==
    [similarityThreshold |-> DefaultSimilarityThreshold,
     minConfidence |-> DefaultMinConfidence,
     maxAlternatives |-> DefaultMaxAlternatives,
     enableCostOptimization |-> TRUE,
     enableLatencyOptimization |-> TRUE]

\* new IntentRouter(config) and a caller about to call route(request)
RouterInit ==
    /\ routerConfig \in {[DefaultRouterConfig EXCEPT !.similarityThreshold = t] :
                            t \in {80, DefaultSimilarityThreshold}}
    /\ routeRequest \in [availableTools : Catalogs, options : RouteOptionChoices]
    /\ routeResult = NoRouteResult

\* the router of a gateway that is not asked to route
RouterIdle ==
    /\ routerConfig = DefaultRouterConfig
    /\ routeRequest = [availableTools |-> <<>>,
                       options |-> [maxAlternatives |-> Undefined,
                                    minConfidence |-> Undefined]]
    /\ routeResult = NoRouteResult

\* route(request) runs and resolves
Route ==
    /\ routeResult = NoRouteResult
    /\ routeResult' = route(routeRequest, routerConfig)
    /\ UNCHANGED <<routerConfig, routeRequest>>
    /\ UNCHANGED <<sandboxVars, streamVars, cacheVars, adapterVars, viewVars>>

RouterSpecNext == Route

\* ===================================================================
\* Part V: ProtocolAdapter and the adapters
\* ===================================================================
\* JavaScript values, tagged by type.
U == [t |-> "undefined"]
N == [t |-> "null"]
Num(n) == [t |-> "number", n |-> n]
Str(s) == [t |-> "string", s |-> s]
Obj(f) == [t |-> "object", f |-> f]
Arr(elems) == [t |-> "array", e |-> elems]
Absent == [t |-> "absent"]             \* a property an object literal omits
EmptyObj == Obj([k \in {} |-> U])

\* an object literal with the properties of fs that are not Absent
MkObj(fs) == Obj([k \in {n \in DOMAIN fs : fs[n].t # "absent"} |-> fs[k]])

Nullish(v) == v.t \in {"undefined", "null"}

\* v.name for a v that is not nullish (reading a property of undefined or
\* null throws; the callers test Nullish first)
Get(v, name) == IF v.t = "object" /\ name \in DOMAIN v.f THEN v.f[name] ELSE U

\* !!v
Truthy(v) ==
    CASE Nullish(v) -> FALSE
      [] v.t = "number" -> v.n # 0
      [] v.t = "string" -> v.s # ""
      [] OTHER -> TRUE

\* a || b
Or(a, b) == IF Truthy(a) THEN a ELSE b

\* v === Str(s)
IsStr(v, s) == v.t = "string" /\ v.s = s

\* the number of decimal digits of a natural number
RECURSIVE Digits(_)
Digits(n) == IF n < 10 THEN 1 ELSE 1 + Digits(n \div 10)

\* JSON.stringify(v).length for a v that JSON.stringify turns into a string
\* (strings here need no escapes); properties whose value is undefined are
\* left out and undefined array elements are written as null
RECURSIVE jsonLength(_), propertiesLength(_, _), elementsLength(_)
jsonLength(v) ==
    CASE v.t = "null" -> 4
      [] v.t = "number" -> Digits(v.n)
      [] v.t = "string" -> Len(v.s) + 2
      [] v.t = "array" ->
            2 + elementsLength(v.e) + (IF Len(v.e) = 0 THEN 0 ELSE Len(v.e) - 1)
      [] v.t = "object" ->
            LET ks == {k \in DOMAIN v.f : v.f[k].t # "undefined"}
            IN  2 + propertiesLength(v.f, ks)
                  + (IF ks = {} THEN 0 ELSE Cardinality(ks) - 1)
      [] OTHER -> 0

propertiesLength(f, ks) ==
    IF ks = {} THEN 0
    ELSE LET k == CHOOSE x \in ks : TRUE
         IN  Len(k) + 3 + jsonLength(f[k]) + propertiesLength(f, ks \ {k})

elementsLength(elems) ==
    IF elems = <<>> THEN 0
    ELSE (IF Head(elems).t = "undefined" THEN 4 ELSE jsonLength(Head(elems)))
         + elementsLength(Tail(elems))

\* String.prototype.toLowerCase on the strings of the payloads
toLowerCase(s) ==
    CASE s = "Write" -> "write"
      [] s = "Query" -> "query"
      [] OTHER -> s

\* `${v}` for the values the payloads put there
toText(v) ==
    CASE v.t = "string" -> v.s
      [] v.t = "undefined" -> "undefined"
      [] v.t = "null" -> "null"
      [] OTHER -> "[object Object]"

Protocols == {"mcp", "a2a", "ucp", "acp", "openai", "anthropic"}

\* An operation either throws or returns a result.
Thrown == [threw |-> TRUE, called |-> TRUE]
NotCalled == [threw |-> FALSE, called |-> FALSE]

\* a ParseResult; metadata.rawSize is JSON.stringify(rawPayload).length, and
\* JSON.stringify(undefined) is undefined, whose .length throws
ParseReturn(raw, success, code) ==
    IF raw.t = "undefined" THEN Thrown
    ELSE [threw |-> FALSE, called |-> TRUE, success |-> success,
          data |-> IF success THEN raw ELSE U,
          code |-> code, rawSize |-> jsonLength(raw)]

\* the catch block of every parse
ParseCatch(raw) == ParseReturn(raw, FALSE, "PARSE_ERROR")

\* MCPAdapter.parse
parseMCP(raw) ==
    IF Nullish(raw) THEN ParseCatch(raw)
    ELSE IF ~IsStr(Get(raw, "jsonrpc"), "2.0")
         THEN ParseReturn(raw, FALSE, "INVALID_JSONRPC")
    ELSE IF ~Truthy(Get(raw, "method"))
         THEN ParseReturn(raw, FALSE, "MISSING_METHOD")
    ELSE ParseReturn(raw, TRUE, "")

\* A2AAdapter.parse
parseA2A(raw) ==
    IF Nullish(raw) THEN ParseCatch(raw)
    ELSE IF ~Truthy(Get(raw, "id")) THEN ParseReturn(raw, FALSE, "MISSING_ID")
    ELSE IF ~Truthy(Get(raw, "sender")) \/ ~Truthy(Get(raw, "recipient"))
         THEN ParseReturn(raw, FALSE, "MISSING_AGENTS")
    ELSE ParseReturn(raw, TRUE, "")

\* UCPAdapter.parse
parseUCP(raw) ==
    IF Nullish(raw) THEN ParseCatch(raw)
    ELSE IF ~Truthy(Get(raw, "context_id"))
         THEN ParseReturn(raw, FALSE, "MISSING_CONTEXT_ID")
    ELSE IF ~Truthy(Get(raw, "operation"))
         THEN ParseReturn(raw, FALSE, "MISSING_OPERATION")
    ELSE ParseReturn(raw, TRUE, "")

\* ACPAdapter.parse
parseACP(raw) ==
    IF Nullish(raw) THEN ParseCatch(raw)
    ELSE IF ~Truthy(Get(raw, "header"))
         THEN ParseReturn(raw, FALSE, "MISSING_HEADER")
    ELSE IF ~Truthy(Get(raw, "body"))
         THEN ParseReturn(raw, FALSE, "MISSING_BODY")
    ELSE ParseReturn(raw, TRUE, "")

\* !Array.isArray(payload.messages) || payload.messages.length === 0
NoMessages(raw) ==
    Get(raw, "messages").t # "array" \/ Len(Get(raw, "messages").e) = 0

\* OpenAIAdapter.parse
parseOpenAI(raw) ==
    IF Nullish(raw) THEN ParseCatch(raw)
    ELSE IF ~Truthy(Get(raw, "model"))
         THEN ParseReturn(raw, FALSE, "MISSING_MODEL")
    ELSE IF NoMessages(raw) THEN ParseReturn(raw, FALSE, "MISSING_MESSAGES")
    ELSE ParseReturn(raw, TRUE, "")

\* AnthropicAdapter.parse
parseAnthropic(raw) ==
    IF Nullish(raw) THEN ParseCatch(raw)
    ELSE IF ~Truthy(Get(raw, "model"))
         THEN ParseReturn(raw, FALSE, "MISSING_MODEL")
    ELSE IF NoMessages(raw) THEN ParseReturn(raw, FALSE, "MISSING_MESSAGES")
    ELSE IF ~Truthy(Get(raw, "max_tokens"))
         THEN ParseReturn(raw, FALSE, "MISSING_MAX_TOKENS")
    ELSE ParseReturn(raw, TRUE, "")

\* adapter.parse(rawPayload) of the adapter registered for the protocol
parse(protocol, raw) ==
    CASE protocol = "mcp" -> parseMCP(raw)
      [] protocol = "a2a" -> parseA2A(raw)
      [] protocol = "ucp" -> parseUCP(raw)
      [] protocol = "acp" -> parseACP(raw)
      [] protocol = "openai" -> parseOpenAI(raw)
      [] protocol = "anthropic" -> parseAnthropic(raw)

\* ---------------------------------------------------------- normalize
\* confidences are in percent
NoIntent == [category |-> "", action |-> U, target |-> U, confidence |-> 0,
             alternatives |-> <<>>]

\* the NORMALIZE_ERROR result of every normalize
NormalizeFail == [threw |-> FALSE, called |-> TRUE, success |-> FALSE,
                  intent |-> NoIntent, code |-> "NORMALIZE_ERROR"]

NormalizeReturn(intent) == [threw |-> FALSE, called |-> TRUE, success |-> TRUE,
                            intent |-> intent, code |-> ""]

\* !parsed.success || !parsed.data
CannotNormalize(parsed) == ~parsed.success \/ ~Truthy(parsed.data)

\* MCPAdapter.normalizeToolCall
normalizeToolCall(payload) ==
    LET params == Or(Get(payload, "params"), EmptyObj)
    IN  [category |-> "tool_call",
         action |-> Or(Get(params, "name"), Str("unknown_tool")),
         target |-> Str("tool"), confidence |-> 100, alternatives |-> <<>>]

\* MCPAdapter.normalizeResourceRead
normalizeResourceRead(payload) ==
    LET params == Or(Get(payload, "params"), EmptyObj)
    IN  [category |-> "data_retrieval", action |-> Str("read_resource"),
         target |-> Or(Get(params, "uri"), Str("unknown")),
         confidence |-> 100, alternatives |-> <<>>]

\* MCPAdapter.normalizePromptGet
normalizePromptGet(payload) ==
    LET params == Or(Get(payload, "params"), EmptyObj)
    IN  [category |-> "information_request", action |-> Str("get_prompt"),
         target |-> Or(Get(params, "name"), Str("unknown")),
         confidence |-> 100, alternatives |-> <<>>]

\* An MCP fallback with the confidence of the A2A fallback.
normalizeGenericMCPAt70(payload) ==
    [category |-> "conversation", action |-> Get(payload, "method"),
     target |-> Str("system"), confidence |-> 70,
     alternatives |-> <<[action |-> "help", confidence |-> 20]>>]

\* MCPAdapter.normalizeGeneric
normalizeGenericMCP(payload) ==
    [category |-> "conversation", action |-> Get(payload, "method"),
     target |-> Str("system"), confidence |-> 80,
     alternatives |-> <<[action |-> "help", confidence |-> 20]>>]

\* MCPAdapter.normalize
normalizeMCP(parsed) ==
    IF CannotNormalize(parsed) THEN NormalizeFail
    ELSE LET payload == parsed.data
             method == Get(payload, "method")
         IN  NormalizeReturn(
                 CASE IsStr(method, "tools/call") -> normalizeToolCall(payload)
                   [] IsStr(method, "resources/read") -> normalizeResourceRead(payload)
                   [] IsStr(method, "prompts/get") -> normalizePromptGet(payload)
                   [] OTHER -> normalizeGenericMCP(payload))

\* A2AAdapter.normalizeTask
normalizeTask(payload) ==
    [category |-> "action_execution",
     action |-> Get(Get(payload, "task"), "type"),
     target |-> Get(Get(payload, "recipient"), "id"),
     confidence |-> 95, alternatives |-> <<>>]

\* A2AAdapter.normalizeMessage
normalizeMessage(payload) ==
    LET message == Get(payload, "message")
    IN  [category |-> IF IsStr(Get(message, "type"), "request")
                      THEN "information_request" ELSE "conversation",
         action |-> Str("a2a_" \o toText(Get(message, "type"))),
         target |-> Get(Get(payload, "recipient"), "id"),
         confidence |-> 90, alternatives |-> <<>>]

\* A2AAdapter.normalizeGeneric
normalizeGenericA2A(payload) ==
    [category |-> "conversation", action |-> Str("a2a_handshake"),
     target |-> Get(Get(payload, "recipient"), "id"),
     confidence |-> 70,
     alternatives |-> <<[action |-> "a2a_discovery", confidence |-> 30]>>]

\* A2AAdapter.normalize
normalizeA2A(parsed) ==
    IF CannotNormalize(parsed) THEN NormalizeFail
    ELSE LET payload == parsed.data
         IN  NormalizeReturn(
                 IF Truthy(Get(payload, "task")) THEN normalizeTask(payload)
                 ELSE IF Truthy(Get(payload, "message")) THEN normalizeMessage(payload)
                 ELSE normalizeGenericA2A(payload))

\* UCPAdapter.mapOperationToCategory, after operation.toLowerCase()
mapOperationToCategory(operation) ==
    CASE operation = "read" -> "data_retrieval"
      [] operation \in {"write", "update", "delete"} -> "action_execution"
      [] operation \in {"query", "search"} -> "information_request"
      [] operation = "analyze" -> "analysis"
      [] operation = "generate" -> "code_generation"
      [] OTHER -> "conversation"

\* UCPAdapter.normalize: operation.toLowerCase() throws unless operation is
\* a string
normalizeUCP(parsed) ==
    IF CannotNormalize(parsed) THEN NormalizeFail
    ELSE LET payload == parsed.data
             operation == Get(payload, "operation")
         IN  IF operation.t # "string" THEN Thrown
             ELSE NormalizeReturn(
                      [category |-> mapOperationToCategory(toLowerCase(operation.s)),
                       action |-> operation,
                       target |-> Get(payload, "context_id"),
                       confidence |-> 90, alternatives |-> <<>>])

\* ACPAdapter.mapMessageTypeToCategory, after messageType.toLowerCase()
mapMessageTypeToCategory(messageType) ==
    CASE messageType = "command" -> "action_execution"
      [] messageType = "query" -> "information_request"
      [] OTHER -> "conversation"

\* ACPAdapter.normalize: messageType.toLowerCase() throws unless
\* header.message_type is a string
normalizeACP(parsed) ==
    IF CannotNormalize(parsed) THEN NormalizeFail
    ELSE LET payload == parsed.data
             header == Get(payload, "header")
             body == Get(payload, "body")
             messageType == Get(header, "message_type")
         IN  IF messageType.t # "string" THEN Thrown
             ELSE NormalizeReturn(
                      [category |-> mapMessageTypeToCategory(toLowerCase(messageType.s)),
                       action |-> Get(body, "action"),
                       target |-> Get(header, "receiver_id"),
                       confidence |-> 95, alternatives |-> <<>>])

\* v.length > 0
NonEmpty(v) ==
    CASE v.t = "array" -> Len(v.e) > 0
      [] v.t = "string" -> Len(v.s) > 0
      [] OTHER -> FALSE

\* [...messages].reverse().find(m => m.role === 'user'): m.role throws on a
\* null or undefined element
RECURSIVE findLastUser(_)
findLastUser(msgs) ==
    IF msgs = <<>> THEN [threw |-> FALSE, value |-> U]
    ELSE LET m == msgs[Len(msgs)]
         IN  IF Nullish(m) THEN [threw |-> TRUE, value |-> U]
             ELSE IF IsStr(Get(m, "role"), "user") THEN [threw |-> FALSE, value |-> m]
             ELSE findLastUser(SubSeq(msgs, 1, Len(msgs) - 1))

\* messages.some(m => m.role === 'assistant' && m.tool_calls &&
\*                    m.tool_calls.length > 0)
RECURSIVE someToolCalls(_)
someToolCalls(msgs) ==
    IF msgs = <<>> THEN [threw |-> FALSE, value |-> FALSE]
    ELSE LET m == Head(msgs)
         IN  IF Nullish(m) THEN [threw |-> TRUE, value |-> FALSE]
             ELSE IF /\ IsStr(Get(m, "role"), "assistant")
                     /\ Truthy(Get(m, "tool_calls"))
                     /\ NonEmpty(Get(m, "tool_calls"))
                  THEN [threw |-> FALSE, value |-> TRUE]
             ELSE someToolCalls(Tail(msgs))

\* OpenAIAdapter.generateAlternatives; temperature is a whole number here
generateAlternativesOpenAI(payload) ==
    LET tools == Get(payload, "tools")
        temperature == Get(payload, "temperature")
    IN  (IF Truthy(tools) /\ NonEmpty(tools)
         THEN <<[action |-> "tool_selection", confidence |-> 70]>> ELSE <<>>)
        \o
        (IF Truthy(temperature) /\ temperature.t = "number" /\ 2 * temperature.n < 1
         THEN <<[action |-> "deterministic_response", confidence |-> 60]>>
         ELSE <<>>)

\* OpenAIAdapter.normalize
normalizeOpenAI(parsed) ==
    IF CannotNormalize(parsed) THEN NormalizeFail
    ELSE LET payload == parsed.data
             msgs == Get(payload, "messages").e
             lastUserMessage == findLastUser(msgs)
             hasToolCalls == someToolCalls(msgs)
         IN  IF lastUserMessage.threw \/ hasToolCalls.threw THEN Thrown
             ELSE NormalizeReturn(
                      [category |-> IF hasToolCalls.value
                                    THEN "tool_call" ELSE "conversation",
                       action |-> IF hasToolCalls.value
                                  THEN Str("execute_tools")
                                  ELSE Str("chat_completion"),
                       target |-> Get(payload, "model"),
                       confidence |-> 95,
                       alternatives |-> generateAlternativesOpenAI(payload)])

\* content.some(c => c.type === type) and the search of
\* content.find(c => c.type === type): c.type throws on a null or undefined
\* block
RECURSIVE findBlock(_, _)
findBlock(blocks, type) ==
    IF blocks = <<>> THEN [threw |-> FALSE, value |-> U]
    ELSE LET c == Head(blocks)
         IN  IF Nullish(c) THEN [threw |-> TRUE, value |-> U]
             ELSE IF IsStr(Get(c, "type"), type) THEN [threw |-> FALSE, value |-> c]
             ELSE findBlock(Tail(blocks), type)

\* messages.some(m => typeof m.content === 'string' ? false
\*                      : m.content.some(c => c.type === 'tool_use')):
\* m.content.some throws unless the content is an array
RECURSIVE someToolUse(_)
someToolUse(msgs) ==
    IF msgs = <<>> THEN [threw |-> FALSE, value |-> FALSE]
    ELSE LET m == Head(msgs)
         IN  IF Nullish(m) THEN [threw |-> TRUE, value |-> FALSE]
             ELSE LET content == Get(m, "content")
                  IN  IF content.t = "string" THEN someToolUse(Tail(msgs))
                      ELSE IF content.t # "array" THEN [threw |-> TRUE, value |-> FALSE]
                      ELSE LET b == findBlock(content.e, "tool_use")
                           IN  IF b.threw THEN [threw |-> TRUE, value |-> FALSE]
                               ELSE IF b.value.t # "undefined"
                                    THEN [threw |-> FALSE, value |-> TRUE]
                               ELSE someToolUse(Tail(msgs))

\* typeof lastUserMessage?.content === 'string' ? lastUserMessage.content
\*   : lastUserMessage?.content.find(c => c.type === 'text')?.text || ''
userContentOf(lastUserMessage) ==
    IF lastUserMessage.t = "undefined" THEN [threw |-> FALSE, value |-> Str("")]
    ELSE LET content == Get(lastUserMessage, "content")
         IN  IF content.t = "string" THEN [threw |-> FALSE, value |-> content]
             ELSE IF content.t # "array" THEN [threw |-> TRUE, value |-> U]
             ELSE LET b == findBlock(content.e, "text")
                  IN  IF b.threw THEN [threw |-> TRUE, value |-> U]
                      ELSE IF b.value.t = "undefined"
                           THEN [threw |-> FALSE, value |-> Str("")]
                      ELSE [threw |-> FALSE,
                            value |-> Or(Get(b.value, "text"), Str(""))]

\* AnthropicAdapter.generateAlternatives
generateAlternativesAnthropic(payload) ==
    LET tools == Get(payload, "tools")
    IN  (IF Truthy(tools) /\ NonEmpty(tools)
         THEN <<[action |-> "tool_selection", confidence |-> 70]>> ELSE <<>>)
        \o
        (IF Truthy(Get(payload, "system"))
         THEN <<[action |-> "system_instruction", confidence |-> 50]>>
         ELSE <<>>)

\* AnthropicAdapter.normalize
normalizeAnthropic(parsed) ==
    IF CannotNormalize(parsed) THEN NormalizeFail
    ELSE LET payload == parsed.data
             msgs == Get(payload, "messages").e
             hasToolUse == someToolUse(msgs)
             lastUserMessage == findLastUser(msgs)
         IN  IF hasToolUse.threw \/ lastUserMessage.threw THEN Thrown
             ELSE IF userContentOf(lastUserMessage.value).threw THEN Thrown
             ELSE NormalizeReturn(
                      [category |-> IF hasToolUse.value
                                    THEN "tool_call" ELSE "conversation",
                       action |-> IF hasToolUse.value
                                  THEN Str("execute_tools")
                                  ELSE Str("chat_completion"),
                       target |-> Get(payload, "model"),
                       confidence |-> 95,
                       alternatives |-> generateAlternativesAnthropic(payload)])

\* adapter.normalize(parsed) of the adapter registered for the protocol
normalize(protocol, parsed) ==
    CASE protocol = "mcp" -> normalizeMCP(parsed)
      [] protocol = "a2a" -> normalizeA2A(parsed)
      [] protocol = "ucp" -> normalizeUCP(parsed)
      [] protocol = "acp" -> normalizeACP(parsed)
      [] protocol = "openai" -> normalizeOpenAI(parsed)
      [] protocol = "anthropic" -> normalizeAnthropic(parsed)

\* ------------------------------------------------------------ convert
DefaultMaxPayloadSize == 10 * 1024 * 1024

NotSettled == [settled |-> FALSE, rejected |-> FALSE, error |-> "",
               request |-> U]
Rejected(error) == [settled |-> TRUE, rejected |-> TRUE, error |-> error,
                    request |-> U]

\* convert(rawPayload, sourceProtocol, traceId): the promise it returns.
\* An exception thrown by parse or normalize rejects the promise.
convert(raw, protocol, trace) ==
    IF protocol \notin Protocols THEN Rejected("Unsupported protocol")
    ELSE LET parsed == parse(protocol, raw)
         IN  IF parsed.threw THEN Rejected("TypeError")
             ELSE IF ~parsed.success THEN Rejected("Parse error")
             ELSE LET normalized == normalize(protocol, parsed)
                  IN  IF normalized.threw THEN Rejected("TypeError")
                      ELSE IF ~normalized.success THEN Rejected("Normalize error")
                      ELSE [settled |-> TRUE, rejected |-> FALSE, error |-> "",
                            request |->
                                Obj([sourceProtocol |-> Str(protocol),
                                     rawPayload |-> raw,
                                     normalizedIntent |-> normalized.intent,
                                     traceId |-> Or(trace, Str("generated-id"))])]

\* ----------------------------------------------------------- payloads
\* What the callers send: values that are no objects, and for each protocol
\* objects with each mandatory field present, missing or of another type.
NonObjectPayloads == {U, N, Num(5), Str("text")}

MCPPayloads ==
    {MkObj([jsonrpc |-> j, method |-> m, params |-> p]) :
        j \in {Absent, Str("2.0"), Str("1.0")},
        m \in {Absent, Str("tools/call"), Str("resources/read"),
               Str("prompts/get"), Str("ping")},
        p \in {Absent, Obj([name |-> Str("search")]), Str("raw")}}

A2APayloads ==
    {MkObj([id |-> i, sender |-> s, recipient |-> r, task |-> k, message |-> m]) :
        i \in {Absent, Str("r1")},
        s \in {Absent, Obj([id |-> Str("alice")])},
        r \in {Absent, Obj([id |-> Str("bob")]), Str("bob")},
        k \in {Absent, Obj([type |-> Str("build")])},
        m \in {Absent, Obj([type |-> Str("request")]), Obj([type |-> Str("event")])}}

UCPPayloads ==
    {MkObj([context_id |-> c, operation |-> o]) :
        c \in {Absent, Str("c1")},
        o \in {Absent, Str("read"), Str("Write"), Str("noop"), Num(7)}}

ACPPayloads ==
    {MkObj([header |-> h, body |-> b]) :
        h \in {Absent, Obj([message_type |-> Str("command")]),
               Obj([message_type |-> Str("Query")]), EmptyObj, Str("hdr")},
        b \in {Absent, Obj([action |-> Str("run")])}}

UserText == Obj([role |-> Str("user"), content |-> Str("hi")])
UserBlocks == Obj([role |-> Str("user"),
                   content |-> Arr(<<Obj([type |-> Str("text"), text |-> Str("hi")])>>)])
UserNoContent == Obj([role |-> Str("user")])
AssistantToolCalls ==
    Obj([role |-> Str("assistant"), content |-> N,
         tool_calls |-> Arr(<<Obj([id |-> Str("c1")])>>)])
AssistantToolUse ==
    Obj([role |-> Str("assistant"),
         content |-> Arr(<<Obj([type |-> Str("tool_use"), name |-> Str("search")])>>)])

MessageLists ==
    {Arr(<<>>), Arr(<<UserText>>), Arr(<<UserBlocks>>), Arr(<<N>>),
     Arr(<<UserNoContent>>), Arr(<<AssistantToolCalls, UserText>>),
     Arr(<<AssistantToolUse, UserText>>)}

ChatPayloads ==
    {MkObj([model |-> m, messages |-> ms, max_tokens |-> x, tools |-> ts]) :
        m \in {Absent, Str("m1")},
        ms \in {Absent} \cup MessageLists,
        x \in {Absent, Num(100)},
        ts \in {Absent, Arr(<<Obj([name |-> Str("search")])>>)}}

Payloads == NonObjectPayloads \cup MCPPayloads \cup A2APayloads
            \cup UCPPayloads \cup ACPPayloads \cup ChatPayloads

\* ------------------------------------------------------- detectProtocol
\* An adapter order with the two chat adapters exchanged.
registerAdaptersAnthropicFirst ==
    <<"mcp", "a2a", "ucp", "acp", "anthropic", "openai">>

\* registerAdapters(): the keys of this.adapters, in insertion order
registerAdapters == <<"mcp", "a2a", "ucp", "acp", "openai", "anthropic">>

NotDetected == "not called"

\* detectProtocol(rawPayload), from the i-th adapter on: the protocol of the
\* first adapter whose parse succeeds, or null; a parse that throws ends it
RECURSIVE detectFrom(_, _)
detectFrom(i, raw) ==
    IF i > Len(registerAdapters) THEN "null"
    ELSE LET result == parse(registerAdapters[i], raw)
         IN  IF result.threw THEN "threw"
             ELSE IF result.success THEN registerAdapters[i]
             ELSE detectFrom(i + 1, raw)

detectProtocol(raw) == detectFrom(1, raw)

\* new ProtocolAdapter(config) and a caller holding a payload
AdapterInit ==
    /\ adapterConfig \in [maxPayloadSize : {MaxPayloadSizeSmall, DefaultMaxPayloadSize}]
    /\ rawPayload \in Payloads
    /\ sourceProtocol \in Protocols \cup {"unknown"}
    /\ traceId \in {U, Str(""), Str("t1")}
    /\ parseResult = NotCalled
    /\ normalizeResult = NotCalled
    /\ convertResult = NotSettled
    /\ detectResult = NotDetected

\* the adapter of a gateway that receives nothing
AdapterIdle ==
    /\ adapterConfig = [maxPayloadSize |-> DefaultMaxPayloadSize]
    /\ rawPayload = U
    /\ sourceProtocol = "mcp"
    /\ traceId = U
    /\ parseResult = NotCalled
    /\ normalizeResult = NotCalled
    /\ convertResult = NotSettled
    /\ detectResult = NotDetected

\* getAdapter(sourceProtocol).parse(rawPayload)
Parse ==
    /\ sourceProtocol \in Protocols
    /\ ~parseResult.called
    /\ parseResult' = parse(sourceProtocol, rawPayload)
    /\ UNCHANGED <<adapterConfig, rawPayload, sourceProtocol, traceId,
                   normalizeResult, convertResult, detectResult>>
    /\ UNCHANGED <<sandboxVars, streamVars, cacheVars, routerVars, viewVars>>

\* getAdapter(sourceProtocol).normalize(parseResult), on whatever parse
\* returned
Normalize ==
    /\ parseResult.called /\ ~parseResult.threw
    /\ ~normalizeResult.called
    /\ normalizeResult' = normalize(sourceProtocol, parseResult)
    /\ UNCHANGED <<adapterConfig, rawPayload, sourceProtocol, traceId,
                   parseResult, convertResult, detectResult>>
    /\ UNCHANGED <<sandboxVars, streamVars, cacheVars, routerVars, viewVars>>

\* convert(rawPayload, sourceProtocol, traceId) runs and settles
Convert ==
    /\ ~convertResult.settled
    /\ convertResult' = convert(rawPayload, sourceProtocol, traceId)
    /\ UNCHANGED <<adapterConfig, rawPayload, sourceProtocol, traceId,
                   parseResult, normalizeResult, detectResult>>
    /\ UNCHANGED <<sandboxVars, streamVars, cacheVars, routerVars, viewVars>>

\* detectProtocol(rawPayload) is called and returns or throws
DetectProtocol ==
    /\ detectResult = NotDetected
    /\ detectResult' = detectProtocol(rawPayload)
    /\ UNCHANGED <<adapterConfig, rawPayload, sourceProtocol, traceId,
                   parseResult, normalizeResult, convertResult>>
    /\ UNCHANGED <<sandboxVars, streamVars, cacheVars, routerVars, viewVars>>

AdapterSpecNext ==
    \/ Parse
    \/ Normalize
    \/ Convert
    \/ DetectProtocol

\* ===================================================================
\* Part VI: AuditInterface
\* ===================================================================
AuditEventTypes ==
    {"request_received", "intent_classified", "tool_selected",
     "human_approval_requested", "human_approved", "human_rejected",
     "tool_executed", "tool_failed", "response_sent", "error_occurred",
     "security_alert"}

Severities == {"info", "warning", "error", "critical"}

\* entry.humanReview: absent, or a review with its decision
NoReview == [present |-> FALSE, decision |-> "none"]
HumanReviews ==
    {NoReview} \cup
    {[present |-> TRUE, decision |-> d] : d \in {"approved", "rejected", "modified"}}

\* The fields of an AuditEntry that generateSummary and determineActions
\* read.  The texts of the view (title, summary.what, summary.when) and its
\* details and metadata are computed from the other fields and are left out.
ViewEntryIds == 1..MaxViewEntries
AuditEntries ==
    [id : ViewEntryIds, eventType : AuditEventTypes, severity : Severities,
     humanReview : HumanReviews]

\* assessImpact with the severity test moved to the front
assessImpactSeverityFirst(entry) ==
    IF entry.severity = "error" THEN "high"
    ELSE IF entry.eventType = "security_alert" THEN "critical"
    ELSE IF entry.eventType = "human_approval_requested" THEN "high"
    ELSE IF entry.eventType = "tool_executed" THEN "medium"
    ELSE IF entry.eventType = "intent_classified" THEN "medium"
    ELSE "low"

assessImpact(entry) ==
    IF entry.eventType = "security_alert" THEN "critical"
    ELSE IF entry.eventType = "tool_failed" /\ entry.severity = "error" THEN "high"
    ELSE IF entry.eventType = "human_approval_requested" THEN "high"
    ELSE IF entry.severity = "error" THEN "high"
    ELSE IF entry.eventType = "tool_executed" THEN "medium"
    ELSE IF entry.eventType = "intent_classified" THEN "medium"
    ELSE "low"

\* entry.humanReview?.decision || 'pending'
statusOf(entry) ==
    IF entry.humanReview.present THEN entry.humanReview.decision ELSE "pending"

generateSummary(entry) ==
    [impact |-> assessImpact(entry), status |-> statusOf(entry)]

\* the ids of the actions, in the order they are pushed
determineActions(entry) ==
    IF entry.eventType = "human_approval_requested" /\ ~entry.humanReview.present
    THEN <<"view-details", "approve", "reject", "modify">>
    ELSE <<"view-details">>

NoView == [generated |-> FALSE]

generateView(entry) ==
    [generated |-> TRUE,
     id        |-> entry.id,
     summary   |-> generateSummary(entry),
     actions   |-> determineActions(entry)]

ViewInit ==
    /\ auditEntry \in AuditEntries
    /\ comprehensionMetrics = {}
    /\ view = NoView

ViewIdle ==
    /\ auditEntry = [id |-> 1, eventType |-> "request_received",
                     severity |-> "info", humanReview |-> NoReview]
    /\ comprehensionMetrics = {}
    /\ view = NoView

\* generateView(auditEntry): builds the view and records the baseline
\* comprehension metric under the entry's id
GenerateView ==
    /\ ~view.generated
    /\ view' = generateView(auditEntry)
    /\ comprehensionMetrics' = comprehensionMetrics \cup {auditEntry.id}
    /\ UNCHANGED auditEntry
    /\ UNCHANGED <<sandboxVars, streamVars, cacheVars, routerVars, adapterVars>>

ViewSpecNext == GenerateView

\* ===================================================================
\* Specifications
\* ===================================================================
\* The sandbox runtime, with the stream untouched.
SandboxIdle ==
    SandboxInit /\ config.minInstances = 0 /\ config.maxInstances = 1
StreamIdle == StreamInit /\ streamConfig.bufferSize = 1
LibIdle == CacheIdle /\ RouterIdle /\ AdapterIdle /\ ViewIdle

Init == SandboxInit /\ StreamIdle /\ LibIdle

Spec == Init /\ [][Next]_vars

\* The sandbox runtime left to its maintenance loop: nobody calls
\* execute().  The interval keeps firing (setInterval), a started creation
\* completes when its sleep is over, and time passes.
WarmSpecNext ==
    \/ MaintainPool
    \/ \E w \in warm : WarmDone(w)
    \/ Tick

WarmSpec ==
    /\ Init
    /\ [][WarmSpecNext]_vars
    /\ WF_vars(MaintainPool)
    /\ WF_vars(\E w \in warm : WarmDone(w))
    /\ WF_vars(Tick)

\* The audit stream, with the sandbox runtime untouched.
StreamSpecInit ==
    /\ SandboxIdle
    /\ StreamInit
    /\ LibIdle

StreamSpec == StreamSpecInit /\ [][StreamSpecNext]_vars

\* The audit stream with its interval timer: while the timer runs, its
\* callback keeps being called (setInterval), so a timer flush that stays
\* possible is eventually taken.  The callers are under no obligation.
StreamLiveSpec ==
    StreamSpecInit /\ [][StreamSpecNext]_vars /\ WF_vars(TimerFlush)

\* The audit stream with its callers querying it.  The buffer is one entry
\* larger than in StreamSpec, so that queries see buffers of two entries.
QuerySpecInit ==
    /\ SandboxIdle
    /\ LibIdle
    /\ buffer = <<>>
    /\ streamConfig = [bufferSize |-> MaxBufferSize + 1]
    /\ handlers = <<>>
    /\ flushTimer = TRUE
    /\ nextEntry = 1
    /\ received = [h \in Handlers |-> <<>>]
    /\ persisted = <<>>
    /\ written = <<>>
    /\ audience = [e \in EntryIds |-> {}]
    /\ handlerErrors = 0
    /\ uncaught = FALSE
    /\ queried = NoQuery

QuerySpec == QuerySpecInit /\ [][QuerySpecNext]_vars

\* The embedding cache, its callers and its clock.
CacheSpecInit ==
    SandboxIdle /\ StreamIdle /\ CacheInit /\ RouterIdle /\ AdapterIdle
    /\ ViewIdle

CacheSpec == CacheSpecInit /\ [][CacheSpecNext]_vars

\* The embedding service: its callers embed tools and intents one call
\* after the other, and time passes.
EmbedSpecInit ==
    SandboxIdle /\ StreamIdle /\ EmbedInit /\ RouterIdle /\ AdapterIdle
    /\ ViewIdle

EmbedSpec == EmbedSpecInit /\ [][EmbedSpecNext]_vars

\* The intent router: one call of route() on any catalog and options.
RouterSpecInit ==
    SandboxIdle /\ StreamIdle /\ CacheIdle /\ RouterInit /\ AdapterIdle
    /\ ViewIdle

RouterSpec == RouterSpecInit /\ [][RouterSpecNext]_vars

\* The protocol adapter: parse, normalize and convert on any payload.
AdapterSpecInit ==
    SandboxIdle /\ StreamIdle /\ CacheIdle /\ RouterIdle /\ AdapterInit
    /\ ViewIdle

AdapterSpec == AdapterSpecInit /\ [][AdapterSpecNext]_vars

\* The audit interface: one call of generateView() on any audit entry.
ViewSpecInit ==
    SandboxIdle /\ StreamIdle /\ CacheIdle /\ RouterIdle /\ AdapterIdle
    /\ ViewInit

ViewSpec == ViewSpecInit /\ [][ViewSpecNext]_vars

\* ===================================================================
\* Part I: properties of the sandbox runtime
\* ===================================================================
Holds(p, id) == exec[p].pc = "running" /\ exec[p].sandbox = id
Held == {id \in Ids : \E p \in Procs : Holds(p, id)}
Status(id) == sandboxObj[id].status
NoDuplicates(s) == \A i, j \in 1..Len(s) : s[i] = s[j] => i = j

\* C1: no sandbox is held by two executions at once; a sandbox an Execute
\* holds is not in the pool (so no other Execute can acquire it, no
\* maintenance run can reap it and no return can evict it), is still
\* registered and is not destroyed, and the last step evicted or reaped none
\* of the held sandboxes.
C1_ExclusiveHold ==
    /\ \A p, q \in Procs, id \in Ids : Holds(p, id) /\ Holds(q, id) => p = q
    /\ \A id \in Held : /\ id \notin Range(pool)
                        /\ id \in sandboxes
                        /\ Status(id) # "destroyed"
    /\ NoDuplicates(pool)
    /\ (ev.evicted \cup ev.reaped) \cap Held = {}

\* C1 witness: an Execute has just taken a sandbox from the pool while
\* another Execute holds a different one.
C1_Witness ==
    /\ ev.op = "execute" /\ ev.hit
    /\ \E p, q \in Procs : p # q /\ exec[p].pc = "running" /\ exec[q].pc = "running"

\* C2: a destroyed sandbox is never in the pool, is held by no Execute, is
\* not registered, and stays destroyed in every later step.
DestroyedIsGone ==
    \A id \in Ids : Status(id) = "destroyed" =>
        /\ id \notin Range(pool)
        /\ id \notin Held
        /\ id \notin sandboxes
        /\ cause[id] \in {"failure", "eviction", "reap"}

C2_DestroyedForever ==
    [][/\ DestroyedIsGone'
       /\ \A id \in Ids : Status(id) = "destroyed" =>
              sandboxObj'[id].status = "destroyed"]_vars

\* C2 witness: sandboxes destroyed by failure cleanup and by idle reap
\* exist, and an Execute has just acquired a sandbox from the pool.
C2_Witness ==
    /\ ev.op = "execute" /\ ev.hit
    /\ \E a, b \in Ids : cause[a] = "failure" /\ cause[b] = "reap"

\* C3 (as claimed): a sandbox changes state only along
\* ready -> running -> ready -> ... -> destroyed, and while a tool runs in a
\* sandbox that sandbox's state is running, on the pool-hit path and on the
\* cold-start path.
LegalTransition(a, b) ==
    \/ a = b
    \/ a = "absent" /\ b \in {"creating", "ready"}
    \/ a = "creating" /\ b = "ready"
    \/ a = "ready" /\ b \in {"running", "destroyed"}
    \/ a = "running" /\ b \in {"ready", "destroyed"}

C3_DispatchOnlyWhileRunning ==
    [][/\ \A id \in Ids : LegalTransition(Status(id), sandboxObj'[id].status)
       /\ \A p \in Procs : exec'[p].pc = "running" =>
              sandboxObj'[exec'[p].sandbox].status = "running"]_vars

\* C4 (as claimed): at most maxInstances sandboxes are live (ready or
\* running) at any time.
C4_AtMostMaxInstances ==
    Cardinality({id \in Ids : Status(id) \in {"ready", "running"}})
        <= config.maxInstances

\* C5 (as claimed): activeSandboxes = created - destroyed - pool length,
\* and it is never negative.
C5_ActiveExcludesPool ==
    /\ metrics.activeSandboxes = metrics.totalSandboxes - destroyed - Len(pool)
    /\ metrics.activeSandboxes >= 0

\* C5 (amended): activeSandboxes = created - destroyed, the number of
\* registered sandboxes whether pooled or in use, and it is never negative.
C5_ActiveIsLive ==
    /\ metrics.activeSandboxes = metrics.totalSandboxes - destroyed
    /\ metrics.activeSandboxes = Cardinality(sandboxes)
    /\ metrics.activeSandboxes >= 0

\* C5 witness: sandboxes have been destroyed and the pool is not empty.
C5_Witness == destroyed > 0 /\ pool # <<>> /\ Held # {}

\* C6 (as claimed): an Execute whose run in the sandbox took longer than
\* timeoutMs returns a failed result with code TIMEOUT, and its sandbox is
\* destroyed and not in the pool.
C6_TimeoutDestroys ==
    (ev.op \in {"returned", "failed"} /\ ev.sandbox # NoSandbox
        /\ ev.executionMs > ev.timeoutMs)
    => /\ ~ev.success
       /\ ev.code = "TIMEOUT"
       /\ Status(ev.sandbox) = "destroyed"
       /\ ev.sandbox \notin Range(pool)

\* C7: a sandbox whose Execute failed after acquiring it is destroyed, is
\* not registered, is not in the pool and is held by nobody, now and ever
\* after; the failing Execute returned a result with success = false.
C7_FailureDestroys ==
    /\ \A id \in Ids : cause[id] = "failure" =>
           /\ Status(id) = "destroyed"
           /\ id \notin sandboxes
           /\ id \notin Range(pool)
           /\ id \notin Held
    /\ (ev.op = "failed" /\ ev.sandbox # NoSandbox) =>
           /\ ~ev.success
           /\ cause[ev.sandbox] = "failure"

\* C7 witness: an Execute failed after taking a sandbox from the pool, and
\* a sandbox has been returned to the pool since.
C7_Witness ==
    /\ \E id \in Ids : cause[id] = "failure"
    /\ ev.op \in {"returned", "warmed"}

\* C8 (as claimed): a return to a pool that holds maxInstances sandboxes
\* evicts and destroys exactly one pooled sandbox, the one with the oldest
\* lastUsedAt.
C8_EvictsOldestByLastUsed ==
    [][(ev'.op \in {"returned", "warmed"} /\ Len(pool) >= config.maxInstances)
       => \E v \in Range(pool) :
            /\ ev'.evicted = {v}
            /\ sandboxObj'[v].status = "destroyed"
            /\ v \notin Range(pool')
            /\ destroyed' = destroyed + 1
            /\ \A id \in Range(pool) :
                   sandboxObj[v].lastUsedAt <= sandboxObj[id].lastUsedAt]_vars

\* C9: a maintenance run removes from the pool and destroys, once each,
\* exactly the pooled sandboxes whose idle time exceeds idleTimeoutMs when
\* the run starts; the others stay in the pool, in order and untouched.
WasIdle == {id \in Range(pool) : clock - sandboxObj[id].lastUsedAt > config.idleTimeoutMs}

C9_ReapsExactlyTheIdle ==
    [][ev'.op = "maintain" =>
        /\ Range(pool') \cap WasIdle = {}
        /\ \A id \in WasIdle : /\ sandboxObj'[id].status = "destroyed"
                               /\ id \notin sandboxes'
        /\ destroyed' = destroyed + Cardinality(WasIdle)
        /\ metrics'.activeSandboxes = metrics.activeSandboxes - Cardinality(WasIdle)
        /\ pool' = SelectIds(pool, Ids \ WasIdle)
        /\ \A id \in Ids \ WasIdle : sandboxObj'[id] = sandboxObj[id]]_vars

\* C9 witness: a maintenance run has just reaped one sandbox and kept another.
C9_Witness == ev.op = "maintain" /\ ev.reaped # {} /\ pool # <<>>

\* ===================================================================
\* Part II: properties of the audit stream
\* ===================================================================
BatchHas(b, e) == \E i \in 1..Len(b) : b[i].id = e
Occurrences(b, e) == Cardinality({i \in 1..Len(b) : b[i].id = e})
BatchesWith(bs, e) == Cardinality({i \in 1..Len(bs) : BatchHas(bs[i], e)})
Written(e) == e < nextEntry
Delivered(e) == BatchesWith(persisted, e) > 0

\* C10: once an entry has been written and a flush has run, every handler
\* that was subscribed when that flush ran has been handed exactly one
\* batch containing the entry (and the entry once in it), no other handler
\* has been handed it, and no later batch contains it; an entry still in
\* the buffer has been handed to nobody.
C10_DeliveredExactlyOnce ==
    \A e \in EntryIds :
        /\ Written(e) => (BatchHas(buffer, e) <=> ~Delivered(e))
        /\ Delivered(e) =>
              /\ BatchesWith(persisted, e) = 1
              /\ \A h \in audience[e] :
                     /\ BatchesWith(received[h], e) = 1
                     /\ \A i \in 1..Len(received[h]) :
                            Occurrences(received[h][i], e) <= 1
              /\ \A h \in Handlers \ audience[e] : BatchesWith(received[h], e) = 0
        /\ ~Delivered(e) => \A h \in Handlers : BatchesWith(received[h], e) = 0

\* C10 witness: two entries were flushed in different batches to different
\* sets of subscribers, one of them to at least two handlers.
C10_Witness ==
    \E e1, e2 \in EntryIds :
        /\ Delivered(e1) /\ Delivered(e2)
        /\ Cardinality(audience[e1]) >= 2
        /\ audience[e2] # audience[e1]
        /\ audience[e2] # {}

Throwers == {h \in Handlers : HandlerKind(h) = "throws"}
BatchOf(bs, e) == CHOOSE b \in Range(bs) : BatchHas(b, e)

\* C12: when a subscriber's handler throws during a flush, every other
\* handler subscribed at that flush is still called once with the same
\* batch, the batch is still handed to persist once, every throw is caught
\* and logged and none reaches the caller of write, writeBatch, stop or the
\* timer, and entries written after an error are still buffered or flushed.
C12_HandlerErrorIsolated ==
    /\ ~uncaught
    /\ \A h \in Throwers : \A e \in EntryIds :
           (h \in audience[e] /\ BatchesWith(received[h], e) > 0) =>
               /\ \A g \in audience[e] \ {h} :
                      /\ BatchesWith(received[g], e) = 1
                      /\ BatchOf(received[g], e) = BatchOf(received[h], e)
               /\ BatchesWith(persisted, e) = 1
               /\ BatchOf(persisted, e) = BatchOf(received[h], e)
    /\ handlerErrors > 0 =>
           /\ \A h \in Throwers : handlerErrors = Len(received[h])
           /\ \A e \in EntryIds :
                  Written(e) => (BatchHas(buffer, e) \/ Delivered(e))

\* C12 witness: the throwing handler is subscribed ahead of another one,
\* it threw at the flush of one entry that the other handler also got, and
\* a later entry was flushed to both in a later batch.
C12_Witness ==
    /\ Len(handlers) >= 2 /\ handlers[1] \in Throwers
    /\ \E e1, e2 \in EntryIds :
           /\ e1 < e2
           /\ Delivered(e1) /\ Delivered(e2)
           /\ BatchOf(persisted, e1) # BatchOf(persisted, e2)
           /\ audience[e1] = Range(handlers)
           /\ audience[e2] = Range(handlers)
    /\ handlerErrors >= 2

\* ===================================================================
\* Part III: properties of the embedding cache
\* ===================================================================
\* C13: a read of key k returns exactly the value of the last write of k
\* when at most TTL has passed since that write (and the cache was not
\* cleared in between); a read after more than TTL, or of a key never
\* written, is a miss and leaves no entry for k; a write stores its value
\* with the current time as timestamp, whatever was stored before.
C13_CacheReadAfterWrite ==
    /\ cacheEv.op = "get" =>
          LET k == cacheEv.key
              w == lastSet[k]
          IN  IF w # NoSet /\ now - w.at <= ttlMs
              THEN /\ cacheEv.result = w.value
                   /\ cache[k] = w.value
              ELSE /\ cacheEv.result = Undefined
                   /\ cache[k] = Undefined
                   /\ timestamps[k] = Undefined
    /\ cacheEv.op = "set" =>
          /\ cache[cacheEv.key] = cacheEv.value
          /\ timestamps[cacheEv.key] = now

\* C13 witness: a read returned a value written exactly TTL > 0 ago over an
\* older value, while another key's entry had been removed by a read after
\* its TTL.
C13_Witness ==
    /\ cacheEv.op = "get"
    /\ cacheEv.result # Undefined
    /\ ttlMs > 0
    /\ now - lastSet[cacheEv.key].at = ttlMs
    /\ \E k \in Keys \ {cacheEv.key} :
           lastSet[k] # NoSet /\ cache[k] = Undefined

\* ===================================================================
\* Part IV: properties of the intent router
\* ===================================================================
Routed == routeResult.success
Decision == routeResult.decision
Catalog == routeRequest.availableTools
InCatalog(t) == \E i \in 1..Len(Catalog) : Catalog[i] = t

\* C14: the tool a successful routing decision selects has a similarity of
\* at least similarityThreshold and of at least the similarity of every
\* tool in fallbackTools (and all of them come from the request's catalog).
C14_SelectedIsBest ==
    Routed =>
        /\ InCatalog(Decision.selectedTool)
        /\ Decision.selectedTool.similarity >= routerConfig.similarityThreshold
        /\ \A i \in 1..Len(Decision.fallbackTools) :
               /\ InCatalog(Decision.fallbackTools[i])
               /\ Decision.selectedTool.similarity >=
                      Decision.fallbackTools[i].similarity

\* C14 witness: the selected tool is the last of a catalog of three, it
\* scores strictly higher than a fallback tool, and one tool of the catalog
\* is below the threshold.
C14_Witness ==
    /\ Routed
    /\ Len(Catalog) = MaxCatalog
    /\ Decision.selectedTool = Catalog[MaxCatalog]
    /\ Len(Decision.fallbackTools) >= 1
    /\ Decision.selectedTool.similarity > Decision.fallbackTools[1].similarity
    /\ \E i \in 1..Len(Catalog) :
           Catalog[i].similarity < routerConfig.similarityThreshold

\* C15: in a successful decision requiresApproval is true exactly when the
\* confidence is below 0.8, and approvalReason is present exactly when
\* requiresApproval is true, carrying the confidence as a percentage with
\* one decimal.
C15_ApprovalBelowEightTenths ==
    Routed =>
        /\ Decision.requiresApproval <=> RatLess(Decision.confidence, Rat(8, 10))
        /\ (Decision.approvalReason # Undefined) <=> Decision.requiresApproval
        /\ Decision.requiresApproval =>
               \* within half a tenth of a percent of the confidence
               LET tenths == Decision.approvalReason
                   c == Decision.confidence
               IN  /\ (2 * tenths - 1) * c.den <= 2000 * c.num
                   /\ 2000 * c.num < (2 * tenths + 1) * c.den

\* C15 witness: a decision that requires approval, whose confidence was
\* lowered below 0.8 by the cost and latency adjustments.
C15_Witness ==
    /\ Routed
    /\ Decision.requiresApproval
    /\ Decision.selectedTool.similarity >= 85
    /\ Decision.approvalReason # Undefined

\* C15, the other side: a decision at exactly 0.8 that needs no approval.
C15_WitnessAtBoundary ==
    /\ Routed
    /\ Decision.confidence = Rat(8, 10)
    /\ ~Decision.requiresApproval

\* the latency and cost the ranking compares: the estimates, or the
\* defaults of the decision when a tool has none
LatencyOf(t) == OrElse(t.latencyEstimate, 100)
CostOf(t) == OrElse(t.costEstimate, 0)

\* a ranks strictly before b: higher similarity, then lower latency, then
\* lower cost, then smaller id
RanksBefore(a, b) ==
    \/ a.similarity > b.similarity
    \/ a.similarity = b.similarity /\ LatencyOf(a) < LatencyOf(b)
    \/ /\ a.similarity = b.similarity /\ LatencyOf(a) = LatencyOf(b)
       /\ CostOf(a) < CostOf(b)
    \/ /\ a.similarity = b.similarity /\ LatencyOf(a) = LatencyOf(b)
       /\ CostOf(a) = CostOf(b) /\ a.id < b.id

\* C16: the selected tool followed by the fallback tools is in ranking
\* order: similarity descending, ties broken by lower latency, then lower
\* cost, then smaller tool id, whatever the order of the catalog.
C16_RankedWithTieBreaks ==
    Routed =>
        LET ranked == <<Decision.selectedTool>> \o Decision.fallbackTools
        IN  \A i \in 1..(Len(ranked) - 1) : RanksBefore(ranked[i], ranked[i + 1])

\* ===================================================================
\* Part V: properties of the protocol adapter
\* ===================================================================
\* C17: whatever the raw payload (null, undefined, no object, an object
\* with fields missing or of another type), parse of each of the six
\* adapters returns a result, and normalize returns a result for every
\* result parse returned; neither throws.
C17_NeverThrows == ~parseResult.threw /\ ~normalizeResult.threw

Normalized == normalizeResult.called /\ ~normalizeResult.threw
              /\ normalizeResult.success
Method == Get(rawPayload, "method")
ExplicitMethod ==
    /\ sourceProtocol = "mcp"
    /\ \E m \in {"tools/call", "resources/read", "prompts/get"} : IsStr(Method, m)
\* the normalizeGeneric paths
FallbackMapping ==
    \/ sourceProtocol = "mcp" /\ ~ExplicitMethod
    \/ /\ sourceProtocol = "a2a"
       /\ ~Truthy(Get(rawPayload, "task"))
       /\ ~Truthy(Get(rawPayload, "message"))

\* C18, as stated: the confidence of a normalized intent is 1.0 for an
\* explicit tool/method mapping, 0.90 to 0.95 for a structural mapping and
\* 0.70 for a fallback conversation mapping, and always within [0,1].
C18_ConfidenceTiers ==
    Normalized =>
        LET c == normalizeResult.intent.confidence
        IN  /\ c \in 0..100
            /\ ExplicitMethod => c = 100
            /\ FallbackMapping => c = 70
            /\ (~ExplicitMethod /\ ~FallbackMapping) => c \in 90..95

\* C18, amended: the confidence is within [0,1] and fixed by the path taken:
\* 1.0 for the three explicit MCP methods, 0.80 for any other MCP method,
\* 0.95 for an A2A task, 0.90 for an A2A message, 0.70 for an A2A request
\* with neither, 0.90 for UCP, 0.95 for ACP and for both chat adapters.
C18_ConfidenceByPath ==
    Normalized =>
        LET c == normalizeResult.intent.confidence
        IN  /\ c \in 0..100
            /\ c = CASE ExplicitMethod -> 100
                     [] sourceProtocol = "mcp" -> 80
                     [] sourceProtocol = "a2a" /\ Truthy(Get(rawPayload, "task")) -> 95
                     [] sourceProtocol = "a2a" /\ Truthy(Get(rawPayload, "message")) -> 90
                     [] sourceProtocol = "a2a" -> 70
                     [] sourceProtocol = "ucp" -> 90
                     [] OTHER -> 95

\* C18 witness: an MCP request with a method that has no explicit mapping
\* was normalized to a conversation intent.
C18_Witness ==
    /\ Normalized
    /\ sourceProtocol = "mcp"
    /\ IsStr(Method, "ping")
    /\ normalizeResult.intent.category = "conversation"

\* C19: convert rejects every raw payload whose size is above
\* maxPayloadSize; it never resolves to a request for one.
C19_RejectsOversized ==
    (convertResult.settled /\ jsonLength(rawPayload) > adapterConfig.maxPayloadSize)
        => convertResult.rejected

\* ===================================================================
\* Part VI: properties of the audit interface
\* ===================================================================
\* The impact rules in the order they are tried; "*" stands for any event
\* type or any severity.
ImpactRules ==
    << [eventType |-> "security_alert",           severity |-> "*",     impact |-> "critical"],
       [eventType |-> "tool_failed",              severity |-> "error", impact |-> "high"],
       [eventType |-> "human_approval_requested", severity |-> "*",     impact |-> "high"],
       [eventType |-> "*",                        severity |-> "error", impact |-> "high"],
       [eventType |-> "tool_executed",            severity |-> "*",     impact |-> "medium"],
       [eventType |-> "intent_classified",        severity |-> "*",     impact |-> "medium"],
       [eventType |-> "*",                        severity |-> "*",     impact |-> "low"] >>

RuleMatches(rule, entry) ==
    /\ rule.eventType \in {"*", entry.eventType}
    /\ rule.severity \in {"*", entry.severity}

FirstMatch(entry) ==
    LET i == CHOOSE k \in 1..Len(ImpactRules) :
                 /\ RuleMatches(ImpactRules[k], entry)
                 /\ \A j \in 1..(k - 1) : ~RuleMatches(ImpactRules[j], entry)
    IN  ImpactRules[i].impact

\* C20: for every event type and severity, the view generateView returns
\* has as summary.impact the impact of the first rule that matches, in the
\* order security_alert -> critical; tool_failed with severity error ->
\* high; human_approval_requested -> high; severity error -> high;
\* tool_executed -> medium; intent_classified -> medium; otherwise low.
C20_ImpactByFirstRule ==
    view.generated => view.summary.impact = FirstMatch(auditEntry)

\* a view of a security alert of severity error: the first and the fourth
\* rule both match, and the impact is the first rule's
C20_Witness ==
    /\ view.generated
    /\ auditEntry.eventType = "security_alert"
    /\ auditEntry.severity = "error"
    /\ view.summary.impact = "critical"

\* ===================================================================
\* Part I, continued: further properties of the sandbox runtime
\* ===================================================================
\* C21: whenever execute() runs a tool inside a sandbox, whether the sandbox
\* was created on a pool miss or taken from the pool, the sandbox's
\* config.allowedTools contains the tool's id.
C21_RunsOnlyAllowedTools ==
    \A p \in Procs :
        exec[p].pc = "running" /\ exec[p].tool # NoTool =>
            exec[p].tool \in sandboxObj[exec[p].sandbox].allowedTools

\* C30: the pool-hit rate is an exponential moving average with alpha = 0.1
\* over every acquisition outcome of execute(): a call that finds a sandbox
\* in the pool takes the rate r to 0.9 r + 0.1, and a call that finds none
\* takes it to 0.9 r.
Acquired == ev'.op = "execute" \/ (ev'.op = "failed" /\ ev'.sandbox = NoSandbox)

C30_HitRateIsMovingAverage ==
    [][Acquired =>
          metrics'.poolHitRate =
              RatAdd(RatMul(Rat(9, 10), metrics.poolHitRate),
                     IF ev'.hit THEN Rat(1, 10) ELSE Rat(0, 1))]_vars

\* C24: with maxInstances >= 1, the pool never holds more than maxInstances
\* sandboxes, however the returns from execute(), the maintenance runs and
\* the warm-up completions interleave.
C24_PoolWithinMaxInstances ==
    config.maxInstances >= 1 => Len(pool) <= config.maxInstances

\* a warm-up completes on a full pool: the head is evicted and the pool is
\* at maxInstances again
C24_Witness ==
    /\ ev.op = "warmed"
    /\ ev.evicted # {}
    /\ Len(pool) = config.maxInstances

\* ===================================================================
\* Part II, continued: further properties of the audit stream
\* ===================================================================
RECURSIVE Concat(_)
Concat(batches) ==
    IF batches = <<>> THEN <<>> ELSE Head(batches) \o Concat(Tail(batches))

\* C23: the stream neither loses, duplicates nor reorders entries: after any
\* write, writeBatch, timer flush, stop, and any write a handler makes
\* during a flush, the batches handed to persist(), concatenated in the
\* order they were handed over, followed by the buffer are the entries
\* written, in write order.
C23_PersistedInWriteOrder == Concat(persisted) \o buffer = written

\* C25: the buffer is bounded by bufferSize: after any write, writeBatch,
\* timer flush or stop has returned the buffer holds fewer than bufferSize
\* entries, and no batch handed to a subscriber has more than bufferSize
\* entries.
C25_BufferAndBatchesBounded ==
    /\ Len(buffer) < streamConfig.bufferSize
    /\ \A h \in Handlers : \A i \in 1..Len(received[h]) :
           Len(received[h][i]) <= streamConfig.bufferSize

Accepted(e) == \E i \in 1..Len(written) : written[i].id = e
Flushed(e) ==
    \E b \in 1..Len(persisted) : \E i \in 1..Len(persisted[b]) :
        persisted[b][i].id = e

\* C26: every entry accepted by write or writeBatch is eventually flushed
\* to the subscribers and handed to persist(), given that the flush timer
\* keeps firing while it runs; entries written after stop() included.
C26_EventuallyFlushed ==
    \A e \in EntryIds : Accepted(e) ~> Flushed(e)

\* ===================================================================
\* Part III, continued: properties of the embedding service
\* ===================================================================
\* C27: caching is transparent: whatever calls of embedIntent and
\* embedToolDescription came before, the vector a call returns is the
\* vector generated from its own input's composed text; so for two tools
\* of one name and different descriptions, and for two intents that differ
\* in their target only.
C27_CachingIsTransparent ==
    cacheEv.op \in {"embedToolDescription", "embedIntent"} =>
        cacheEv.result = callEmbeddingAPI(cacheEv.value)

\* ===================================================================
\* Part V, continued: further properties of the protocol adapter
\* ===================================================================
Accepts(protocol, raw) ==
    LET result == parse(protocol, raw) IN ~result.threw /\ result.success

\* C28: detectProtocol never returns the anthropic tag: every payload the
\* anthropic adapter's parse accepts (model, non-empty messages, max_tokens)
\* is accepted by the openai adapter's parse, which is tried before it in
\* the order mcp, a2a, ucp, acp, openai, anthropic.
C28_NeverDetectsAnthropic ==
    /\ Accepts("anthropic", rawPayload) => Accepts("openai", rawPayload)
    /\ detectResult # "anthropic"

\* a payload the anthropic adapter accepts is detected as openai
C28_Witness ==
    /\ Accepts("anthropic", rawPayload)
    /\ detectResult = "openai"

\* ===================================================================
\* Part IV, continued: further properties of the intent router
\* ===================================================================
\* the maxAlternatives in force: the caller's option when it supplies one
\* (0 included), the configured value otherwise
MaxAlternativesInForce ==
    IF routeRequest.options.maxAlternatives # Undefined
    THEN routeRequest.options.maxAlternatives
    ELSE routerConfig.maxAlternatives

\* C29: the fallbackTools of a successful decision are at most
\* maxAlternatives tools, the per-call option when the caller supplies one
\* (from 0 upward) and the configured value otherwise, and they are the
\* tools ranked next after the selected one.
C29_FallbacksWithinMaxAlternatives ==
    Routed =>
        /\ Len(Decision.fallbackTools) <= MaxAlternativesInForce
        /\ Len(Decision.fallbackTools) <= Len(routeResult.alternatives)
        /\ \A i \in 1..Len(Decision.fallbackTools) :
               Decision.fallbackTools[i] = routeResult.alternatives[i].tool

\* ---- Part I, the maintenance loop alone ----

Reaped == {id \in Ids : cause[id] = "reap"}

\* a maintenance run has reaped sandboxes, and whatever is pooled now was
\* created after the last of them
AfterReapAll ==
    /\ Reaped # {}
    /\ \A id \in Range(pool), r \in Reaped : id > r

====
